---- MODULE Spec2Model ----
(***************************************************************************)
(* Model of dysgu/call_component.pyx: the alignment-pair classifier        *)
(* (classify_d and its four regimes), the breakpoint consensus (break_ops, *)
(* infer_unmapped_insertion_break_point, make_call) as driven by           *)
(* call_from_reads, mask_soft_clips, count_attributes, the units of work   *)
(* single and one_edge, get_reads, multi and call_from_block_model, and    *)
(* get_raw_coverage_information.                                           *)
(***************************************************************************)
EXTENDS Integers, Sequences, FiniteSets, TLC

VARIABLES
    v_item,       \* the AlignmentItem being classified
    pc,           \* "new" before classify_d, "classified" after
    informative,  \* call_from_reads: list of classified AlignmentItems
    precise_a,    \* call_from_reads: breakA of the items with breakA_precise
    precise_b,    \* call_from_reads: breakB of the items with breakB_precise
    insert_size,  \* make_call parameter
    insert_stdev, \* make_call parameter
    call,         \* the record returned by the last make_call, or NoCall
    runs,         \* how many times make_call has run on the current lists
    aflag,        \* mask_soft_clips: flag of alignment A
    bflag,        \* mask_soft_clips: flag of alignment B
    a_ct,         \* mask_soft_clips: cigartuples of A
    b_ct,         \* mask_soft_clips: cigartuples of B
    clips,        \* mask_soft_clips: the tuple returned, <<>> before the call
    unit,         \* single / one_edge: the evidence of one unit of work, per template
    min_support,  \* single / one_edge: the min_support parameter
    extended_tags, \* single / one_edge: the extended_tags parameter
    upath,        \* "" before the unit is processed, then "single" or "one_edge"
    info,         \* the call made for the unit before its support is tested
    attrs,        \* what count_attributes returned for the unit
    final,        \* the aggregate whose support is tested
    result,       \* what single / one_edge returned for the unit
    data,         \* call_from_block_model: parts, s_between, s_within and the nodes of the component
    data_reads,   \* data["reads"]: the alignments buffered so far, by node
    nodes_info,   \* get_reads: the nodes asked for
    add_to_buffer, \* get_reads / multi: whether fetched alignments are buffered
    fetched,      \* what the get_reads calls of the last step did, node by node
    seen,         \* multi: the parts no edge has yielded reads for
    out_counts,   \* multi: the reads collected over the edges, by part
    buffered_reads, \* multi: the running count of reads collected over the edges
    events,       \* multi / call_from_block_model: the list being returned
    mpc,          \* where call_from_block_model is, or the exception that left it
    loop_i,       \* multi: the position in the loop being run
    rec_in,       \* get_raw_coverage_information: the call record r as first handed in
    rec,          \* get_raw_coverage_information: the call record r as it is now
    regions,      \* the target regions, a list of <<chrom, start, end>>
    regions_depth, \* the chromosomes with coverage, each with its depth
    switch,       \* the local `switch` of the last annotation
    annotations   \* how many times the record has been annotated

classify_vars == <<v_item, pc, informative, precise_a, precise_b, insert_size, insert_stdev, call, runs>>
clip_vars == <<aflag, bflag, a_ct, b_ct, clips>>
unit_vars == <<unit, min_support, extended_tags, upath, info, attrs, final, result>>
multi_vars == <<data, data_reads, nodes_info, add_to_buffer, fetched, seen, out_counts, buffered_reads, events, mpc, loop_i>>
annot_vars == <<rec_in, rec, regions, regions_depth, switch, annotations>>
vars == <<classify_vars, clip_vars, unit_vars, multi_vars, annot_vars>>

\* The variables outside the classifier and call_from_reads, outside
\* mask_soft_clips, outside single and one_edge, outside
\* call_from_block_model, and outside get_raw_coverage_information.
not_classify_vars == <<clip_vars, unit_vars, multi_vars, annot_vars>>
not_clip_vars == <<classify_vars, unit_vars, multi_vars, annot_vars>>
not_unit_vars == <<classify_vars, clip_vars, multi_vars, annot_vars>>
not_multi_vars == <<classify_vars, clip_vars, unit, upath, info, attrs, final, result, annot_vars>>
not_annot_vars == <<classify_vars, clip_vars, unit_vars, multi_vars>>

\* mask_soft_clips has no call in progress.
ClipIdle == aflag = 0 /\ bflag = 0 /\ a_ct = <<>> /\ b_ct = <<>> /\ clips = <<>>

\* No unit of work is being processed.
UnitIdle ==
    /\ unit = <<>> /\ min_support = 0 /\ extended_tags = 0
    /\ upath = "" /\ info = <<>> /\ attrs = <<>> /\ final = <<>> /\ result = <<>>

\* call_from_block_model has no call in progress.
MultiIdle ==
    /\ data = <<>> /\ data_reads = <<>> /\ nodes_info = <<>> /\ add_to_buffer = 0 /\ fetched = <<>>
    /\ seen = {} /\ out_counts = <<>> /\ buffered_reads = 0 /\ events = <<>> /\ mpc = "" /\ loop_i = 0

\* No call record is being annotated.
AnnotIdle ==
    /\ rec_in = <<>> /\ rec = <<>> /\ regions = <<>> /\ regions_depth = <<>>
    /\ switch = FALSE /\ annotations = 0

NotClassifyIdle == ClipIdle /\ UnitIdle /\ MultiIdle /\ AnnotIdle

\* ---------------------------------------------------------------- bounds
\* Reference coordinates range over 0..MaxPos.
MaxPos == 3
\* At most MaxHyp hypotheses are collected before a call is made.
MaxHyp == 3
\* make_call is run at most MaxRuns times on the same lists.
MaxRuns == 2

\* ---------------------------------------------------------------- AlignmentItem

\* An alignment's reference span <<pos, reference_end>>, pos < reference_end.
Spans == {s \in (0..MaxPos) \X (0..MaxPos) : s[1] < s[2]}

Strands == {3, 5}
Flags == {0, 1}

\* Query spans <<qstart, qend>> of alignment A and of alignment B.
AQSpans == {<<0, 2>>, <<2, 4>>}
BQSpans == {<<0, 2>>, <<1, 3>>, <<3, 5>>}

AlignmentItem(chrA, chrB, priA, priB, rA, rB, posA, endA, posB, endB, strandA, strandB, left_clipA, right_clipA, left_clipB, right_clipB, a_qstart, a_qend, b_qstart, b_qend, read_overlaps_mate) ==
    [chrA |-> chrA, chrB |-> chrB, priA |-> priA, priB |-> priB, rA |-> rA, rB |-> rB,
     posA |-> posA, endA |-> endA, posB |-> posB, endB |-> endB,
     strandA |-> strandA, strandB |-> strandB,
     left_clipA |-> left_clipA, right_clipA |-> right_clipA,
     left_clipB |-> left_clipB, right_clipB |-> right_clipB,
     a_qstart |-> a_qstart, a_qend |-> a_qend, b_qstart |-> b_qstart, b_qend |-> b_qend,
     read_overlaps_mate |-> read_overlaps_mate,
     breakA_precise |-> 0, breakB_precise |-> 0, breakA |-> -1, breakB |-> -1,
     svtype |-> "", join_type |-> "", query_gap |-> -1]

is_overlapping(x1, x2, y1, y2) ==
    LET mx == IF x1 > y1 THEN x1 ELSE y1
        mn == IF x2 < y2 THEN x2 ELSE y2
    IN  mx <= mn

\* The assignments one branch of the classifier makes: both breaks, the
\* precision flags (a flag is only ever raised, from the 0 classify_d set),
\* svtype and join_type.
SetBreaks(v, bA, pA, bB, pB, sv, jt) ==
    [v EXCEPT !.breakA = bA, !.breakA_precise = IF pA # 0 THEN 1 ELSE 0,
              !.breakB = bB, !.breakB_precise = IF pB # 0 THEN 1 ELSE 0,
              !.svtype = sv, !.join_type = jt]

Or(a, b) == IF a # 0 \/ b # 0 THEN 1 ELSE 0

\* str() of a strand code, as the f-string formats it.
StrandStr(s) == IF s = 3 THEN "3" ELSE IF s = 5 THEN "5" ELSE "?"

FormatJoin(sA, sB) == StrandStr(sA) \o "to" \o StrandStr(sB)

\* two_primary, A before B.
two_primary_a_first(v) ==
    IF v.strandA = 3 /\ v.strandB = 5
    THEN SetBreaks(v, v.endA, v.right_clipA, v.posB, v.left_clipB, "DEL", "3to5")
    ELSE IF v.strandA = 5 /\ v.strandB = 3
    THEN SetBreaks(v, v.posA, v.left_clipA, v.endB, v.right_clipB, "DUP", "5to3")
    ELSE IF v.strandA = 5
    THEN
        IF Or(v.left_clipA, v.left_clipB) = 0 /\ Or(v.right_clipA, v.right_clipB) = 1
        THEN SetBreaks(v, v.endA, v.right_clipA, v.endB, v.right_clipB, "INV", "3to3")
        ELSE SetBreaks(v, v.posA, v.left_clipA, v.posB, v.right_clipB, "INV", "5to5")
    ELSE
        IF Or(v.right_clipA, v.right_clipB) = 0 /\ Or(v.left_clipA, v.left_clipB) = 1
        THEN
            IF (v.posA < v.posB /\ v.left_clipB = 1) \/ (v.posB < v.posA /\ v.left_clipA = 1)
            THEN SetBreaks(v, v.endA, v.right_clipA, v.endB, v.right_clipB, "INV", "3to3")
            ELSE SetBreaks(v, v.posA, v.left_clipA, v.posB, v.left_clipB, "INV", "5to5")
        ELSE SetBreaks(v, v.endA, v.left_clipA, v.endB, v.right_clipB, "INV", "3to3")

\* two_primary, B before A (or equal spans).
two_primary_b_first(v) ==
    IF v.strandA = 5 /\ v.strandB = 3
    THEN SetBreaks(v, v.posA, v.left_clipA, v.endB, v.right_clipB, "DEL", "3to5")
    ELSE IF v.strandB = 5 /\ v.strandA = 3
    THEN SetBreaks(v, v.endA, v.right_clipA, v.posB, v.left_clipB, "DUP", "5to3")
    ELSE IF v.strandA = 5
    THEN
        IF Or(v.left_clipA, v.left_clipB) = 0 /\ Or(v.right_clipA, v.right_clipB) = 1
        THEN SetBreaks(v, v.endA, v.right_clipA, v.endB, v.right_clipB, "INV", "3to3")
        ELSE SetBreaks(v, v.posA, v.left_clipA, v.posB, v.right_clipB, "INV", "5to5")
    ELSE IF v.strandA = 3
    THEN
        IF Or(v.right_clipA, v.right_clipB) = 0 /\ Or(v.left_clipA, v.left_clipB) = 1
        THEN SetBreaks(v, v.posA, v.right_clipA, v.posB, v.right_clipB, "INV", "5to5")
        ELSE SetBreaks(v, v.endA, v.left_clipA, v.endB, v.right_clipB, "INV", "3to3")
    ELSE v

\* The tie-break dropped: equal starts are no longer ordered by their ends.
two_primary_no_tie_break(v) ==
    IF v.posA < v.posB
    THEN two_primary_a_first(v)
    ELSE two_primary_b_first(v)

two_primary(v) ==
    IF v.posA < v.posB \/ (v.posA = v.posB /\ v.endA < v.endB)
    THEN two_primary_a_first(v)
    ELSE two_primary_b_first(v)

\* The break and precision flag the "nested" branches choose for one side:
\* the left clip if present, else the alignment end (precise if right-clipped).
NestedBreak(pos, end, left_clip, right_clip) ==
    IF left_clip # 0 THEN <<pos, 1>>
    ELSE IF right_clip # 0 THEN <<end, 1>>
    ELSE <<end, 0>>

\* The comparison turned round: an insertion when the reference gap is larger.
SetGapReversed(w, ref_gap, query_gap, ins_join, other_sv, other_join) ==
    IF ref_gap > query_gap
    THEN [w EXCEPT !.svtype = "INS", !.join_type = ins_join, !.query_gap = query_gap]
    ELSE [w EXCEPT !.svtype = other_sv, !.join_type = other_join]

\* svtype, join_type and query_gap once the breaks are set: an insertion when
\* the gap on the reference is smaller than the gap on the query.
SetGap(w, ref_gap, query_gap, ins_join, other_sv, other_join) ==
    IF ref_gap < query_gap
    THEN [w EXCEPT !.svtype = "INS", !.join_type = ins_join, !.query_gap = query_gap]
    ELSE [w EXCEPT !.svtype = other_sv, !.join_type = other_join]

\* The final else of the position-only guess left out: join_type stays unset
\* for a forward A.
same_read_inv_no_else(v) ==
    IF v.left_clipA # 0 /\ v.left_clipB # 0
    THEN SetBreaks(v, v.posA, 1, v.posB, 1, "INV", "5to5")
    ELSE IF v.right_clipA # 0 /\ v.right_clipB # 0
    THEN SetBreaks(v, v.endA, 1, v.endB, 1, "INV", "3to3")
    ELSE SetBreaks(v, v.posA, 0, v.posB, 0, "INV", IF v.strandA = 5 THEN "5to5" ELSE v.join_type)

\* The opposite-strand "INV type" tail shared by both halves of same_read.
same_read_inv(v) ==
    IF v.left_clipA # 0 /\ v.left_clipB # 0
    THEN SetBreaks(v, v.posA, 1, v.posB, 1, "INV", "5to5")
    ELSE IF v.right_clipA # 0 /\ v.right_clipB # 0
    THEN SetBreaks(v, v.endA, 1, v.endB, 1, "INV", "3to3")
    ELSE SetBreaks(v, v.posA, 0, v.posB, 0, "INV", IF v.strandA = 5 THEN "5to5" ELSE "3to3")

\* The query gap of a nested pair with the expression of the A-first branch
\* in both branches.
NestedQueryGapAFirstOnly(v, a_first) == v.b_qstart - v.a_qend

\* same_read, lines 1040 and 1204: the gap on the query of a nested pair, from
\* the end of A to the start of B when A is first, from the start of A to the
\* end of B when B is first.
NestedQueryGap(v, a_first) ==
    IF a_first THEN v.b_qstart - v.a_qend ELSE v.b_qend - v.a_qstart

same_read(v) ==
    IF v.posA < v.posB \/ (v.posA = v.posB /\ v.endA <= v.endB)
    THEN
        IF v.strandA = v.strandB
        THEN
            IF is_overlapping(v.posA, v.endA, v.posB, v.endB)
            THEN
                LET a == NestedBreak(v.posA, v.endA, v.left_clipA, v.right_clipA)
                    b == NestedBreak(v.posB, v.endB, v.left_clipB, v.right_clipB)
                    w == SetBreaks(v, a[1], a[2], b[1], b[2], "", "")
                IN  SetGap(w, w.breakB - w.breakA, NestedQueryGap(v, TRUE), "5to3", "DUP", "5to3")
            ELSE IF v.left_clipA = 0 /\ v.right_clipB = 0
            THEN
                LET w == SetBreaks(v, v.endA, v.right_clipA, v.posB, v.left_clipB, "", "")
                IN  SetGap(w, w.breakB - w.breakA, v.b_qstart - v.a_qend, "3to5",
                           IF v.read_overlaps_mate # 0 THEN "DUP" ELSE "DEL",
                           IF v.read_overlaps_mate # 0 THEN "5to3" ELSE "3to5")
            ELSE IF v.right_clipA = 0 /\ v.left_clipB = 0
            THEN SetBreaks(v, v.posA, v.left_clipA, v.endB, v.right_clipB, "DUP", "5to3")
            ELSE IF v.left_clipA = 0 /\ v.left_clipB = 0
            THEN SetBreaks(v, v.endA, v.right_clipA, v.endB, v.right_clipB, "INV", "3to3")
            ELSE SetBreaks(v, v.posA, v.left_clipA, v.posB, v.left_clipB, "INV", "5to5")
        ELSE IF v.strandA = 5 /\ v.strandB = 3
        THEN
            IF v.left_clipA = 0 /\ v.left_clipB = 0
            THEN SetBreaks(v, v.endA, v.right_clipA, v.endB, v.right_clipB, "INV", "3to3")
            ELSE IF v.right_clipA = 0 /\ v.right_clipB = 0
            THEN SetBreaks(v, v.posA, v.left_clipA, v.posB, v.left_clipB, "INV", "5to5")
            ELSE IF is_overlapping(v.posA, v.endA, v.posB, v.endB)
            THEN SetBreaks(v, v.posA, v.left_clipA, v.endB, v.right_clipB, "INV:DUP", "5to3")
            ELSE IF v.right_clipA # 0 /\ v.left_clipB # 0
            THEN SetBreaks(v, v.endA, 0, v.posB, 0, "INV", "3to5")
            ELSE SetBreaks(v, v.posA, 0, v.endB, 0, "INV", "5to3")
        ELSE same_read_inv(v)
    ELSE
        IF v.strandA = v.strandB
        THEN
            IF is_overlapping(v.posA, v.endA, v.posB, v.endB)
            THEN
                LET a == NestedBreak(v.posA, v.endA, v.left_clipA, v.right_clipA)
                    b == NestedBreak(v.posB, v.endB, v.left_clipB, v.right_clipB)
                    w == SetBreaks(v, a[1], a[2], b[1], b[2], "", "")
                IN  SetGap(w, w.breakB - w.breakA, NestedQueryGap(v, FALSE), "5to3", "DUP", "5to3")
            ELSE IF v.left_clipB = 0 /\ v.right_clipA = 0
            THEN
                LET w == SetBreaks(v, v.posA, 1, v.endB, 1, "", "")
                IN  SetGap(w, w.breakA - w.breakB, v.b_qstart - v.a_qend, "3to5",
                           IF v.read_overlaps_mate # 0 THEN "DUP" ELSE "DEL",
                           IF v.read_overlaps_mate # 0 THEN "5to3" ELSE "3to5")
            ELSE IF v.right_clipB = 0 /\ v.left_clipA = 0
            THEN SetBreaks(v, v.endA, 1, v.posB, 1, "DUP", "5to3")
            ELSE SetBreaks(v, v.posA, 0, v.posB, 0, "BND", FormatJoin(v.strandA, v.strandB))
        ELSE same_read_inv(v)

\* The "DEL type" branch as it read before the INS assignment replaced it.
different_read_del_type_as_del(v, bA, pA, bB, pB) ==
    SetBreaks(v, bA, pA, bB, pB, "DEL", "3to5")

\* The "DEL type" branch of different_read: the forward alignment first, the
\* reverse one second; reported as INS.
different_read_del_type(v, bA, pA, bB, pB) ==
    SetBreaks(v, bA, pA, bB, pB, "INS", "3to5")

different_read(v) ==
    IF v.posA < v.posB \/ (v.posA = v.posB /\ v.endA <= v.endB)
    THEN
        IF v.strandA = 3 /\ v.strandB = 5
        THEN different_read_del_type(v, v.endA, v.right_clipA, v.posB, v.left_clipB)
        ELSE IF v.strandA = 5 /\ v.strandB = 3
        THEN SetBreaks(v, v.posA, v.left_clipA, v.endB, v.right_clipB, "DUP", "5to3")
        ELSE IF v.strandA = v.strandB
        THEN
            IF is_overlapping(v.posA, v.endA, v.posB, v.endB)
            THEN
                IF v.strandA = 3
                THEN SetBreaks(v, v.endA, v.right_clipA, v.endB, v.right_clipB, "INV", "3to3")
                ELSE SetBreaks(v, v.posA, v.left_clipA, v.posB, v.left_clipB, "INV", "5to5")
            ELSE IF v.right_clipA = 0 /\ v.right_clipB = 0
            THEN SetBreaks(v, v.posA, v.left_clipA, v.posB, v.left_clipB, "INV", "5to5")
            ELSE IF v.left_clipA = 0 /\ v.left_clipB = 0
            THEN SetBreaks(v, v.endA, v.right_clipA, v.endB, v.right_clipB, "INV", "3to3")
            ELSE IF v.right_clipA # 0 /\ v.left_clipB # 0
            THEN SetBreaks(v, v.endA, 1, v.posB, 1, "INV:DUP", "5to3")
            ELSE SetBreaks(v, v.posA, 1, v.endB, 1, "INV:DUP", "3to5")
        ELSE v
    ELSE
        IF v.strandA = 5 /\ v.strandB = 3
        THEN different_read_del_type(v, v.posA, v.left_clipA, v.endB, v.right_clipB)
        ELSE IF v.strandA = 3 /\ v.strandB = 5
        THEN SetBreaks(v, v.endA, v.right_clipA, v.posB, v.left_clipB, "DUP", "5to3")
        ELSE IF v.strandA = v.strandB
        THEN
            IF is_overlapping(v.posA, v.endA, v.posB, v.endB)
            THEN
                LET a == NestedBreak(v.posA, v.endA, v.left_clipA, v.right_clipA)
                    b == NestedBreak(v.posB, v.endB, v.left_clipB, v.right_clipB)
                IN  SetBreaks(v, a[1], a[2], b[1], b[2], "DUP", "5to3")
            ELSE IF v.right_clipA # 0 /\ v.left_clipB # 0
            THEN SetBreaks(v, v.endA, 1, v.posB, 1, "DEL", "3to5")
            ELSE IF v.left_clipA # 0 /\ v.right_clipB # 0
            THEN SetBreaks(v, v.posA, 1, v.endB, 1, "DUP", "5to3")
            ELSE IF v.left_clipB = 0 /\ v.left_clipA = 0
            THEN SetBreaks(v, v.endA, v.right_clipA, v.endB, v.right_clipB, "INV", "3to3")
            ELSE IF v.right_clipB = 0 /\ v.right_clipA = 0
            THEN SetBreaks(v, v.posA, v.left_clipA, v.posB, v.left_clipB, "INV", "5to5")
            ELSE IF v.strandA = 3
            THEN SetBreaks(v, v.endA, v.right_clipA, v.endB, v.right_clipB, "INV", "3to3")
            ELSE SetBreaks(v, v.posA, v.left_clipA, v.posB, v.left_clipB, "INV", "5to5")
        ELSE v

\* One side of a translocation: the clipped end, else the alignment start.
TraBreak(pos, end, left_clip, right_clip) ==
    IF left_clip # 0 THEN pos
    ELSE IF right_clip # 0 THEN end
    ELSE pos

translocation(v) ==
    SetBreaks(v, TraBreak(v.posA, v.endA, v.left_clipA, v.right_clipA), 1,
                 TraBreak(v.posB, v.endB, v.left_clipB, v.right_clipB), 1,
                 "TRA", FormatJoin(v.strandA, v.strandB))

\* The regimes tested in the wrong order: both-primary before inter-chromosomal.
classify_d_primary_first(v) ==
    LET w == [v EXCEPT !.breakA_precise = 0, !.breakB_precise = 0]
    IN  IF w.priA # 0 /\ w.priB # 0 THEN two_primary(w)
        ELSE IF w.chrA # w.chrB THEN translocation(w)
        ELSE IF w.rA = w.rB THEN same_read(w)
        ELSE different_read(w)

classify_d(v) ==
    LET w == [v EXCEPT !.breakA_precise = 0, !.breakB_precise = 0]
    IN  IF w.chrA # w.chrB THEN translocation(w)
        ELSE IF w.priA # 0 /\ w.priB # 0 THEN two_primary(w)
        ELSE IF w.rA = w.rB THEN same_read(w)
        ELSE different_read(w)

\* ---------------------------------------------------------------- numpy and Python helpers

\* An expression of the form CHOOSE r \in {F(x) : x \in {e}} : TRUE is F(e) with
\* e evaluated once, as a local variable assigned once in the code.

\* Insertion of x into an ascending list, before the first element not smaller.
RECURSIVE InsertInt(_, _)
InsertInt(x, seq) ==
    IF seq = <<>> THEN <<x>>
    ELSE IF x <= Head(seq) THEN <<x>> \o seq
    ELSE <<Head(seq)>> \o InsertInt(x, Tail(seq))

\* sorted() of a list of integers.
RECURSIVE SortInts(_)
SortInts(seq) ==
    IF seq = <<>> THEN <<>>
    ELSE CHOOSE r \in {InsertInt(Head(seq), rest) : rest \in {SortInts(Tail(seq))}} : TRUE

\* Python's tuple comparison on (position, delta, precise).
TupleLess(x, y) ==
    \/ x[1] < y[1]
    \/ (x[1] = y[1] /\ x[2] < y[2])
    \/ (x[1] = y[1] /\ x[2] = y[2] /\ x[3] < y[3])

\* Insertion of the event x into a list in ascending order, or in descending
\* order when reverse.
RECURSIVE InsertOp(_, _, _)
InsertOp(x, ops, reverse) ==
    IF ops = <<>> THEN <<x>>
    ELSE IF (IF reverse THEN ~TupleLess(x, Head(ops)) ELSE ~TupleLess(Head(ops), x))
    THEN <<x>> \o ops
    ELSE <<Head(ops)>> \o InsertOp(x, Tail(ops), reverse)

\* sorted(ops, reverse=...).
RECURSIVE SortOps(_, _)
SortOps(ops, reverse) ==
    IF ops = <<>> THEN <<>>
    ELSE CHOOSE r \in {InsertOp(Head(ops), rest, reverse) : rest \in {SortOps(Tail(ops), reverse)}} : TRUE

\* np.median of a non-empty list of integers, times two (it is an integer or
\* an integer plus one half).
Median2(seq) ==
    CHOOSE m \in {IF Len(srt) % 2 = 1 THEN 2 * srt[(Len(srt) + 1) \div 2]
                  ELSE srt[Len(srt) \div 2] + srt[Len(srt) \div 2 + 1] : srt \in {SortInts(seq)}} : TRUE

\* int(np.percentile(seq, [97.5])) for non-negative integers: linear
\* interpolation at the virtual index 0.975 * (n - 1), truncated.
Percentile975(seq) ==
    LET n == Len(seq)
        idx1000 == 975 * (n - 1)
        lo == idx1000 \div 1000
        frac1000 == idx1000 % 1000
    IN  CHOOSE p \in {IF frac1000 = 0 THEN srt[lo + 1]
                      ELSE srt[lo + 1] + (frac1000 * (srt[lo + 2] - srt[lo + 1])) \div 1000
                          : srt \in {SortInts(seq)}} : TRUE

Abs(x) == IF x < 0 THEN -x ELSE x
Min(a, b) == IF a < b THEN a ELSE b
Max(a, b) == IF a > b THEN a ELSE b

\* int(a / b) for b > 0: Python's float division truncated towards zero.
TruncDiv(a, b) == IF a >= 0 THEN a \div b ELSE -((-a) \div b)

RECURSIVE SumSeq(_)
SumSeq(seq) == IF seq = <<>> THEN 0 ELSE Head(seq) + SumSeq(Tail(seq))

InSeq(x, seq) == \E i \in 1..Len(seq) : seq[i] = x

\* ---------------------------------------------------------------- breakpoint consensus

\* The two events of the k-th approximate position.
ApproxEvents(positions, limit) ==
    [k \in 1..(2 * Len(positions)) |->
        IF k % 2 = 1 THEN <<positions[(k + 1) \div 2], 1, 0>>
        ELSE <<positions[k \div 2] + limit, -1, 0>>]

\* The two events of the k-th precise position.
PreciseEvents(precise, limit) ==
    LET v == IF limit < 0 THEN -1 ELSE 1
    IN  [k \in 1..(2 * Len(precise)) |->
            IF k % 2 = 1 THEN <<precise[(k + 1) \div 2], 1, 1>>
            ELSE <<(IF v = -1 THEN precise[k \div 2] + v + 1 ELSE precise[k \div 2] + v), -1, 1>>]

\* The close event of an approximate observation written with delta +1.
BreakOpsEventsSignSlip(positions, precise, limit) ==
    [k \in 1..(2 * Len(positions)) |->
        IF k % 2 = 1 THEN <<positions[(k + 1) \div 2], 1, 0>>
        ELSE <<positions[k \div 2] + limit, 1, 0>>] \o PreciseEvents(precise, limit)

\* break_ops, the event list: (i, +1) and (i + limit, -1) for every approximate
\* position, (i, +1) and a one-base close for every precise one.
BreakOpsEvents(positions, precise, limit) ==
    ApproxEvents(positions, limit) \o PreciseEvents(precise, limit)

\* The scan step that moves max_sum_i whenever the running sum is not below
\* max_sum.
ScanStepLatest(st, delta, idx) ==
    IF st[1] + delta >= st[2]
    THEN <<st[1] + delta, st[1] + delta, idx>>
    ELSE <<st[1] + delta, st[2], st[3]>>

\* break_ops, one step of the scan on the state <<cum_sum, max_sum, max_sum_i>>
\* (the index counted from 1).
ScanStep(st, delta, idx) ==
    IF st[1] + delta > st[2]
    THEN <<st[1] + delta, st[1] + delta, idx>>
    ELSE <<st[1] + delta, st[2], st[3]>>

\* break_ops, the scan over all events.
ScanOps(ops) ==
    LET Scan[i \in 0..Len(ops)] ==
            IF i = 0 THEN <<0, 0, 1>>
            ELSE CHOOSE r \in {ScanStep(st, ops[i][2], i) : st \in {Scan[i - 1]}} : TRUE
    IN  Scan[Len(ops)]

\* break_ops after the scan: the event at max_sum_i, the precise flag and cipos95.
BreakOpsResult(ops, positions, precise, median2) ==
    LET top == ops[ScanOps(ops)[3]]
        break_point == top[1]
        is_precise == IF top[3] # 0 \/ InSeq(break_point, precise) THEN 1 ELSE 0
        cipos95 == IF is_precise # 0 /\ Len(precise) > 1 THEN 0
                   ELSE Abs(2 * Percentile975(positions) - median2) \div 2
    IN  <<break_point, cipos95, is_precise>>

\* break_ops(positions, precise, limit, median_pos), the median given doubled;
\* returns <<break_point, cipos95, is_precise>>.
break_ops(positions, precise, limit, median2) ==
    CHOOSE r \in {BreakOpsResult(ops, positions, precise, median2)
                     : ops \in {SortOps(BreakOpsEvents(positions, precise, limit), limit < 0)}} : TRUE

\* The svlen of infer_unmapped_insertion_break_point with both breaks left
\* where the sweeps put them.
InferSvlenOnly(c) ==
    IF c.preciseA = 0 /\ c.preciseB = 0
    THEN [c EXCEPT !.svlen = Min(Abs(c.posB - c.posA), Max(c.cipos95A, c.cipos95B))]
    ELSE IF c.preciseA = 0 /\ c.preciseB # 0 THEN [c EXCEPT !.svlen = c.cipos95A \div 2]
    ELSE IF c.preciseB = 0 /\ c.preciseA # 0 THEN [c EXCEPT !.svlen = c.cipos95B \div 2]
    ELSE [c EXCEPT !.svlen = 0]

\* infer_unmapped_insertion_break_point on the record of the six sweep results;
\* adds svlen.
infer_unmapped_insertion_break_point(c) ==
    LET sep == Abs(c.posB - c.posA)
        mid == sep \div 2 + Min(c.posA, c.posB)
    IN  IF c.preciseA = 0 /\ c.preciseB = 0
        THEN [c EXCEPT !.posA = mid, !.posB = mid + 1,
                       !.svlen = Min(sep, Max(c.cipos95A, c.cipos95B))]
        ELSE IF c.preciseA = 0 /\ c.preciseB # 0
        THEN [c EXCEPT !.posA = IF c.posA < c.posB THEN c.posB - 1 ELSE c.posB + 1,
                       !.svlen = c.cipos95A \div 2]
        ELSE IF c.preciseB = 0 /\ c.preciseA # 0
        THEN [c EXCEPT !.posB = IF c.posA < c.posB THEN c.posA + 1 ELSE c.posA - 1,
                       !.svlen = c.cipos95B \div 2]
        ELSE [c EXCEPT !.svlen = 0]

\* The record of one pair of sweeps: a names the results assigned to
\* main_A_break, cipos95A and b those assigned to main_B_break, cipos95B;
\* pA and pB are the flags assigned to preciseA and preciseB.
Sweeps(a, b, pA, pB) ==
    [posA |-> a[1], cipos95A |-> a[2], preciseA |-> pA,
     posB |-> b[1], cipos95B |-> b[2], preciseB |-> pB, svlen |-> 0]

\* The choice among the sweep results by svtype and join type alone, without
\* regard to the medians.
ChooseSweepsByLabel(svtype, jointype, median_A, median_B, Afwd, Arev, Bfwd, Brev) ==
    IF svtype = "DEL" THEN Sweeps(Afwd, Brev, Afwd[3], Brev[3])
    ELSE IF svtype = "DUP" THEN Sweeps(Arev, Bfwd, Arev[3], Bfwd[3])
    ELSE IF jointype = "3to3" THEN Sweeps(Afwd, Bfwd, Afwd[3], Bfwd[3])
    ELSE IF jointype = "5to5" THEN Sweeps(Arev, Brev, Arev[3], Brev[3])
    ELSE IF jointype = "3to5" THEN Sweeps(Afwd, Brev, Afwd[3], Brev[3])
    ELSE Sweeps(Arev, Bfwd, Arev[3], Bfwd[3])

\* make_call, the choice among the four sweep results by svtype and join type:
\* Afwd / Arev are break_ops on side A with +limit / -limit, Bfwd / Brev on side B.
ChooseSweeps(svtype, jointype, median_A, median_B, Afwd, Arev, Bfwd, Brev) ==
    IF svtype = "DEL"
    THEN IF median_A < median_B
         THEN Sweeps(Afwd, Brev, Afwd[3], Brev[3])
         ELSE Sweeps(Arev, Bfwd, Bfwd[3], Arev[3])
    ELSE IF svtype = "DUP"
    THEN IF median_A < median_B
         THEN Sweeps(Arev, Bfwd, Arev[3], Bfwd[3])
         ELSE Sweeps(Afwd, Brev, Afwd[3], Brev[3])
    ELSE IF jointype = "3to3" THEN Sweeps(Afwd, Bfwd, Afwd[3], Bfwd[3])
    ELSE IF jointype = "5to5" THEN Sweeps(Arev, Brev, Arev[3], Brev[3])
    ELSE IF jointype = "3to5" THEN Sweeps(Afwd, Brev, Afwd[3], Brev[3])
    ELSE Sweeps(Arev, Bfwd, Arev[3], Bfwd[3])

\* make_call, lines 1616-1658: the medians and the sweeps.
make_call_sweeps(positionsA, positionsB, breakA_precise, breakB_precise, svtype, jointype, limit) ==
    CHOOSE c \in {ChooseSweeps(svtype, jointype, mA, mB, Afwd, Arev, Bfwd, Brev)
                     : mA \in {Median2(positionsA)}, mB \in {Median2(positionsB)},
                       Afwd \in {break_ops(positionsA, breakA_precise, limit, Median2(positionsA))},
                       Arev \in {break_ops(positionsA, breakA_precise, -limit, Median2(positionsA))},
                       Bfwd \in {break_ops(positionsB, breakB_precise, limit, Median2(positionsB))},
                       Brev \in {break_ops(positionsB, breakB_precise, -limit, Median2(positionsB))}} : TRUE

\* [i.query_gap for i in informative if i.query_gap != -1].
RECURSIVE QGaps(_)
QGaps(inf) ==
    IF inf = <<>> THEN <<>>
    ELSE (IF Head(inf).query_gap # -1 THEN <<Head(inf).query_gap>> ELSE <<>>) \o QGaps(Tail(inf))

\* make_call, lines 1661-1672: svlen and the insertion refinement, on the
\* record c of the sweeps.
make_call_svlen(c, inf, svtype) ==
    IF inf[1].chrA = inf[1].chrB
    THEN IF svtype = "INS"
         THEN IF Len(QGaps(inf)) > 0
              THEN [c EXCEPT !.svlen = TruncDiv(SumSeq(QGaps(inf)), Len(QGaps(inf)))]
              ELSE infer_unmapped_insertion_break_point(c)
         ELSE [c EXCEPT !.svlen = Abs(c.posB - c.posA)]
    ELSE [c EXCEPT !.svlen = 0]

\* make_call, lines 1674-1677: the record returned.
make_call_record(d, inf, svtype, jointype) ==
    [svtype |-> svtype, join_type |-> jointype, chrA |-> inf[1].chrA, chrB |-> inf[1].chrB,
     cipos95A |-> d.cipos95A, cipos95B |-> d.cipos95B, posA |-> d.posA, posB |-> d.posB,
     preciseA |-> d.preciseA, preciseB |-> d.preciseB, svlen |-> d.svlen]

make_call(inf, breakA_precise, breakB_precise, svtype, jointype, isize, istdev) ==
    CHOOSE r \in {make_call_record(d, inf, svtype, jointype)
                     : d \in {make_call_svlen(c, inf, svtype)
                                 : c \in {make_call_sweeps([i \in 1..Len(inf) |-> inf[i].breakA],
                                                           [i \in 1..Len(inf) |-> inf[i].breakB],
                                                           breakA_precise, breakB_precise,
                                                           svtype, jointype, isize + istdev)}}} : TRUE

\* Counter(keys).most_common()[0][0]: the key counted most often, the one seen
\* first among equals.
Count(keys, k) == Cardinality({i \in 1..Len(keys) : keys[i] = k})

MostCommon(keys) ==
    LET best == CHOOSE i \in 1..Len(keys) :
                    /\ \A j \in 1..Len(keys) : Count(keys, keys[j]) <= Count(keys, keys[i])
                    /\ \A j \in 1..(i - 1) : Count(keys, keys[j]) < Count(keys, keys[i])
    IN  keys[best]

\* call_from_reads after its loop: the majority (svtype, join_type), then make_call.
call_from_reads_call(inf, pa, pb, isize, istdev) ==
    CHOOSE r \in {make_call(inf, pa, pb, key[1], key[2], isize, istdev)
                     : key \in {MostCommon([i \in 1..Len(inf) |-> <<inf[i].svtype, inf[i].join_type>>])}} : TRUE

\* ---------------------------------------------------------------- the classifier's inputs

\* read_overlaps_mate as same_read_overlaps_mate computes it can only be 1 for
\* a same-chromosome, same-read pair whose reference spans overlap.
OverlapFlags(chrs, rs, a, b) ==
    IF chrs[1] = chrs[2] /\ rs[1] = rs[2] /\ is_overlapping(b[1], b[2], a[1], a[2])
    THEN Flags ELSE {0}

\* The (left_clip, right_clip) pairs of one alignment once the item is built:
\* when both ends are clipped the shorter clip is cleared.
ClipPairs == {<<0, 0>>, <<1, 0>>, <<0, 1>>}

\* The AlignmentItems over the given chromosome, primary-flag and read-number
\* pairs and query spans, with every span pair, strand pair and clip pair.
IsItemOf(v, chrPairs, priPairs, readPairs, aqSpans, bqSpans) ==
    \E c \in chrPairs, p \in priPairs, r \in readPairs, a \in Spans, b \in Spans :
        \E clA \in ClipPairs, clB \in ClipPairs, sA \in Strands, sB \in Strands :
            \E aq \in aqSpans, bq \in bqSpans, rom \in OverlapFlags(c, r, a, b) :
                v = AlignmentItem(c[1], c[2], p[1], p[2], r[1], r[2], a[1], a[2], b[1], b[2], sA, sB,
                                  clA[1], clA[2], clB[1], clB[2], aq[1], aq[2], bq[1], bq[2], rom)

\* Inter-chromosomal pairs, both-primary pairs, primary+supplementary pairs of
\* one read (where the query spans matter) and of different reads.
IsItem(v) ==
    \/ IsItemOf(v, {<<0, 1>>}, {<<1, 1>>, <<1, 0>>, <<0, 1>>}, {<<1, 1>>, <<1, 2>>}, {<<0, 2>>}, {<<3, 5>>})
    \/ IsItemOf(v, {<<0, 0>>}, {<<1, 1>>}, {<<1, 1>>, <<1, 2>>}, {<<0, 2>>}, {<<3, 5>>})
    \/ IsItemOf(v, {<<0, 0>>}, {<<1, 0>>, <<0, 1>>}, {<<1, 1>>}, AQSpans, BQSpans)
    \/ IsItemOf(v, {<<0, 0>>}, {<<1, 0>>, <<0, 1>>}, {<<1, 2>>}, {<<0, 2>>}, {<<3, 5>>})

NoCall == [svtype |-> "none"]

\* ---------------------------------------------------------------- classification

Init ==
    /\ NotClassifyIdle
    /\ IsItem(v_item)
    /\ pc = "new"
    /\ informative = <<>>
    /\ precise_a = <<>>
    /\ precise_b = <<>>
    /\ insert_size = 0
    /\ insert_stdev = 0
    /\ call = NoCall
    /\ runs = 0

\* classify_d(v_item), as call_from_reads and single invoke it on a fresh item.
Classify ==
    /\ pc = "new"
    /\ v_item' = classify_d(v_item)
    /\ pc' = "classified"
    /\ UNCHANGED <<informative, precise_a, precise_b, insert_size, insert_stdev, call, runs>>
    /\ UNCHANGED not_classify_vars

Next == Classify

Spec == Init /\ [][Next]_vars

\* ---------------------------------------------------------------- call_from_reads

\* The read pairs a call is made from: different-read INS-shaped pairs
\* (unclipped; A right-clipped; B left-clipped), same-read split pairs whose
\* query spans overlap or leave a gap, both-primary DEL-shaped pairs in both
\* orders, a DUP-shaped pair, a both-reverse (5to5) pair, and an
\* inter-chromosomal pair.
CallItems ==
    { AlignmentItem(0, 0, 1, 0, 1, 2,  0, 2,  7, 9,   3, 5,  0, 0, 0, 0,  0, 2, 0, 2,  0),
      AlignmentItem(0, 0, 1, 0, 1, 2,  1, 3,  7, 9,   3, 5,  0, 1, 0, 0,  0, 2, 0, 2,  0),
      AlignmentItem(0, 0, 1, 0, 1, 2,  0, 2,  6, 9,   3, 5,  0, 0, 1, 0,  0, 2, 0, 3,  0),
      AlignmentItem(0, 0, 1, 0, 1, 1,  0, 4,  0, 5,   3, 3,  0, 1, 1, 0,  0, 4, 2, 7,  0),
      AlignmentItem(0, 0, 1, 0, 1, 1,  0, 2,  4, 6,   3, 3,  0, 1, 1, 0,  0, 2, 5, 7,  0),
      AlignmentItem(0, 0, 1, 1, 1, 2,  0, 3,  8, 10,  3, 5,  0, 1, 1, 0,  0, 3, 2, 4,  0),
      AlignmentItem(0, 0, 1, 1, 1, 2,  8, 10, 0, 3,   5, 3,  1, 0, 0, 0,  1, 3, 0, 3,  0),
      AlignmentItem(0, 0, 1, 1, 1, 2,  2, 4,  6, 9,   5, 3,  1, 0, 0, 0,  1, 3, 0, 3,  0),
      AlignmentItem(0, 0, 1, 1, 1, 2,  1, 3,  7, 9,   5, 5,  1, 0, 1, 0,  0, 2, 0, 2,  0),
      AlignmentItem(0, 1, 1, 1, 1, 2,  3, 5,  1, 2,   3, 3,  0, 1, 0, 0,  0, 2, 0, 1,  0) }

InsertSizes == {1, 3}
InsertStdevs == {1}

BlankItem == AlignmentItem(0, 0, 0, 0, 0, 0, 0, 0, 0, 0, 0, 0, 0, 0, 0, 0, 0, 0, 0, 0, 0)

InitCall ==
    /\ NotClassifyIdle
    /\ v_item = BlankItem
    /\ pc = "new"
    /\ informative = <<>>
    /\ precise_a = <<>>
    /\ precise_b = <<>>
    /\ insert_size \in InsertSizes
    /\ insert_stdev \in InsertStdevs
    /\ call = NoCall
    /\ runs = 0

\* One iteration of the loop of call_from_reads: build the item of a read
\* pair, classify it, record its precise breaks and append it.
AddHypothesis ==
    /\ runs = 0
    /\ Len(informative) < MaxHyp
    /\ \E item \in CallItems :
          /\ v_item' = classify_d(item)
          /\ pc' = "classified"
          /\ informative' = Append(informative, v_item')
          /\ precise_a' = IF v_item'.breakA_precise # 0
                          THEN Append(precise_a, v_item'.breakA) ELSE precise_a
          /\ precise_b' = IF v_item'.breakB_precise # 0
                          THEN Append(precise_b, v_item'.breakB) ELSE precise_b
    /\ UNCHANGED <<insert_size, insert_stdev, call, runs>>
    /\ UNCHANGED not_classify_vars

\* The hypothesis list sorted in place by breakA before the call is made.
MakeCallSortsInPlace ==
    /\ informative # <<>>
    /\ runs < MaxRuns
    /\ informative' = [k \in 1..Len(informative) |->
                          informative[CHOOSE i \in 1..Len(informative) :
                              Cardinality({j \in 1..Len(informative) :
                                  \/ informative[j].breakA < informative[i].breakA
                                  \/ (informative[j].breakA = informative[i].breakA /\ j < i)}) = k - 1]]
    /\ call' = call_from_reads_call(informative', precise_a, precise_b, insert_size, insert_stdev)
    /\ runs' = runs + 1
    /\ UNCHANGED <<v_item, pc, precise_a, precise_b, insert_size, insert_stdev>>
    /\ UNCHANGED not_classify_vars

\* The tail of call_from_reads: the majority vote and make_call. The lists it
\* is given are only read.
MakeCall ==
    /\ informative # <<>>
    /\ runs < MaxRuns
    /\ call' = call_from_reads_call(informative, precise_a, precise_b, insert_size, insert_stdev)
    /\ runs' = runs + 1
    /\ UNCHANGED <<v_item, pc, informative, precise_a, precise_b, insert_size, insert_stdev>>
    /\ UNCHANGED not_classify_vars

NextCall == AddHypothesis \/ MakeCall

SpecCall == InitCall /\ [][NextCall]_vars

\* ---------------------------------------------------------------- classifier properties

SvTypes == {"DEL", "DUP", "INS", "INV", "INV:DUP", "TRA", "BND"}
JoinTypes == {"3to3", "3to5", "5to3", "5to5"}

Classified == pc = "classified"
SameChrom == v_item.chrA = v_item.chrB
BothPrimary == v_item.priA # 0 /\ v_item.priB # 0
TwoPrimaryRegime == SameChrom /\ BothPrimary
SameReadRegime == SameChrom /\ ~BothPrimary /\ v_item.rA = v_item.rB
DifferentReadRegime == SameChrom /\ ~BothPrimary /\ v_item.rA # v_item.rB
OppositeStrands == v_item.strandA # v_item.strandB

\* The item as it was handed to classify_d: the outputs back at their initial values.
Unclassified(v) ==
    [v EXCEPT !.breakA_precise = 0, !.breakB_precise = 0, !.breakA = -1, !.breakB = -1,
              !.svtype = "", !.join_type = "", !.query_gap = -1]

\* The outputs classify_d fills in.
Outputs(v) == <<v.svtype, v.join_type, v.breakA, v.breakB, v.breakA_precise, v.breakB_precise, v.query_gap>>

\* C1: after classify_d the item is fully populated: svtype is one of the seven
\* types, join_type has the form XtoY with X, Y in {3, 5}, breakA is posA or
\* endA, breakB is posB or endB, and neither break is the unset value -1.
Thm_C1 ==
    Classified =>
        /\ v_item.svtype \in SvTypes
        /\ v_item.join_type \in JoinTypes
        /\ v_item.breakA \in {v_item.posA, v_item.endA}
        /\ v_item.breakB \in {v_item.posB, v_item.endB}
        /\ v_item.breakA # -1
        /\ v_item.breakB # -1

\* The position-only guess of the same-read regime has run on a forward A.
Wit_C1 ==
    /\ Classified /\ SameReadRegime /\ OppositeStrands
    /\ v_item.strandA = 3 /\ v_item.left_clipA = 0 /\ v_item.right_clipB = 0
    /\ v_item.svtype = "INV" /\ v_item.join_type = "3to3"

\* C2 (as claimed): in every same-chromosome regime a precision flag is set
\* only when the chosen side of that alignment carries a clip.
Cex_C2 ==
    (Classified /\ SameChrom) =>
        /\ v_item.breakA_precise = 1 =>
              \/ (v_item.breakA = v_item.posA /\ v_item.left_clipA = 1)
              \/ (v_item.breakA = v_item.endA /\ v_item.right_clipA = 1)
        /\ v_item.breakB_precise = 1 =>
              \/ (v_item.breakB = v_item.posB /\ v_item.left_clipB = 1)
              \/ (v_item.breakB = v_item.endB /\ v_item.right_clipB = 1)

\* The alignment the both-primary regime takes as first: the smaller start,
\* equal starts ordered by end, B when the spans are equal.
AFirstTwoPrimary ==
    v_item.posA < v_item.posB \/ (v_item.posA = v_item.posB /\ v_item.endA < v_item.endB)

FirstStrandTwoPrimary == IF AFirstTwoPrimary THEN v_item.strandA ELSE v_item.strandB
OtherStrandTwoPrimary == IF AFirstTwoPrimary THEN v_item.strandB ELSE v_item.strandA

\* C3: in the both-primary same-chromosome regime svtype is DEL with join 3to5
\* exactly when the first alignment is forward and the other reverse, DUP with
\* join 5to3 exactly when the first is reverse and the other forward, INV with
\* join 3to3 or 5to5 when the strands are equal, and nothing else; a DEL with A
\* first, right-clipped, and B left-clipped breaks at endA and posB, both precise.
Thm_C3 ==
    (Classified /\ TwoPrimaryRegime) =>
        /\ v_item.svtype \in {"DEL", "DUP", "INV"}
        /\ v_item.svtype = "DEL" <=> (FirstStrandTwoPrimary = 3 /\ OtherStrandTwoPrimary = 5)
        /\ v_item.svtype = "DUP" <=> (FirstStrandTwoPrimary = 5 /\ OtherStrandTwoPrimary = 3)
        /\ v_item.svtype = "INV" <=> ~OppositeStrands
        /\ v_item.svtype = "DEL" => v_item.join_type = "3to5"
        /\ v_item.svtype = "DUP" => v_item.join_type = "5to3"
        /\ v_item.svtype = "INV" => v_item.join_type \in {"3to3", "5to5"}
        /\ (v_item.svtype = "DEL" /\ v_item.posA < v_item.posB
                /\ v_item.right_clipA = 1 /\ v_item.left_clipB = 1) =>
              /\ v_item.breakA = v_item.endA /\ v_item.breakB = v_item.posB
              /\ v_item.breakA_precise = 1 /\ v_item.breakB_precise = 1

\* A both-primary pair with equal starts, A ending first, forward then reverse.
Wit_C3 ==
    /\ Classified /\ TwoPrimaryRegime
    /\ v_item.posA = v_item.posB /\ v_item.endA < v_item.endB
    /\ v_item.strandA = 3 /\ v_item.strandB = 5
    /\ v_item.right_clipA = 1 /\ v_item.left_clipB = 1
    /\ v_item.svtype = "DEL"

\* C4: an inter-chromosomal pair is TRA, both sides precise, each break at the
\* clipped end (start when left-clipped, end when only right-clipped) or at the
\* start when unclipped, and priA/priB, rA/rB do not change any output.
Thm_C4 ==
    (Classified /\ ~SameChrom) =>
        /\ v_item.svtype = "TRA"
        /\ v_item.breakA_precise = 1 /\ v_item.breakB_precise = 1
        /\ v_item.breakA = IF v_item.left_clipA = 1 THEN v_item.posA
                           ELSE IF v_item.right_clipA = 1 THEN v_item.endA ELSE v_item.posA
        /\ v_item.breakB = IF v_item.left_clipB = 1 THEN v_item.posB
                           ELSE IF v_item.right_clipB = 1 THEN v_item.endB ELSE v_item.posB
        /\ \A pA \in Flags, pB \in Flags, rA \in {1, 2}, rB \in {1, 2} :
              Outputs(classify_d([Unclassified(v_item) EXCEPT !.priA = pA, !.priB = pB,
                                                              !.rA = rA, !.rB = rB]))
                  = Outputs(v_item)

\* An inter-chromosomal pair of two primaries, A only right-clipped, B unclipped.
Wit_C4 ==
    /\ Classified /\ ~SameChrom /\ BothPrimary
    /\ v_item.left_clipA = 0 /\ v_item.right_clipA = 1
    /\ v_item.left_clipB = 0 /\ v_item.right_clipB = 0
    /\ v_item.breakA = v_item.endA /\ v_item.breakB = v_item.posB

\* The alignment the different-read regime takes as first: the smaller start,
\* equal starts ordered by end, A when the spans are equal.
AFirstDifferentRead ==
    v_item.posA < v_item.posB \/ (v_item.posA = v_item.posB /\ v_item.endA <= v_item.endB)

FirstStrandDifferentRead == IF AFirstDifferentRead THEN v_item.strandA ELSE v_item.strandB

\* C5: in the different-read regime an opposite-strand pair with the forward
\* alignment first is INS with join 3to5, one with the reverse alignment first
\* is DUP with join 5to3, and DEL is never assigned to an opposite-strand pair.
Thm_C5 ==
    (Classified /\ DifferentReadRegime /\ OppositeStrands) =>
        /\ FirstStrandDifferentRead = 3 => (v_item.svtype = "INS" /\ v_item.join_type = "3to5")
        /\ FirstStrandDifferentRead = 5 => (v_item.svtype = "DUP" /\ v_item.join_type = "5to3")
        /\ v_item.svtype # "DEL"

\* A different-read pair, forward A strictly before reverse B.
Wit_C5 ==
    /\ Classified /\ DifferentReadRegime
    /\ v_item.posA < v_item.posB /\ v_item.strandA = 3 /\ v_item.strandB = 5
    /\ v_item.svtype = "INS"

\* The case C6 is about: same read, same strand, overlapping reference spans,
\* A first.
NestedAFirst ==
    /\ Classified /\ SameReadRegime /\ ~OppositeStrands
    /\ is_overlapping(v_item.posA, v_item.endA, v_item.posB, v_item.endB)
    /\ (v_item.posA < v_item.posB \/ (v_item.posA = v_item.posB /\ v_item.endA <= v_item.endB))

RefOverlap == v_item.breakA - v_item.breakB
QueryOverlap == v_item.a_qend - v_item.b_qstart

\* C6 (as claimed): in that case a reference overlap between the chosen breaks
\* larger than the overlap in query coordinates gives DUP and not INS.
Cex_C6 ==
    (NestedAFirst /\ RefOverlap > QueryOverlap) => v_item.svtype = "DUP"

\* C6 (amended): in that case a reference overlap larger than the query overlap
\* gives INS, with query_gap = b_qstart - a_qend recorded; DUP is the result
\* when the reference overlap is not larger than the query overlap.
Thm_C6 ==
    /\ (NestedAFirst /\ RefOverlap > QueryOverlap) =>
          (v_item.svtype = "INS" /\ v_item.query_gap = v_item.b_qstart - v_item.a_qend)
    /\ (NestedAFirst /\ RefOverlap <= QueryOverlap) =>
          (v_item.svtype = "DUP" /\ v_item.query_gap = -1)

\* A nested same-read pair whose reference overlap exceeds its query overlap.
Wit_C6 ==
    /\ NestedAFirst /\ RefOverlap > QueryOverlap
    /\ v_item.right_clipA = 1 /\ v_item.left_clipB = 1
    /\ v_item.breakA = v_item.endA /\ v_item.breakB = v_item.posB

\* Same read, same strand, overlapping reference spans, in either order.
NestedSameStrand ==
    /\ Classified /\ SameReadRegime /\ ~OppositeStrands
    /\ is_overlapping(v_item.posA, v_item.endA, v_item.posB, v_item.endB)

\* A is first: it starts before B, or at the same position and ends no later.
AFirst == v_item.posA < v_item.posB \/ (v_item.posA = v_item.posB /\ v_item.endA <= v_item.endB)

\* The distance on the query: b_qstart - a_qend when A is first,
\* b_qend - a_qstart when B is first.
QueryDistance ==
    IF AFirst THEN v_item.b_qstart - v_item.a_qend ELSE v_item.b_qend - v_item.a_qstart

\* C19: for a same-read pair with equal strands and overlapping reference
\* spans, svtype is INS with query_gap the query distance exactly when
\* breakB - breakA is strictly smaller than the query distance, and otherwise
\* DUP with query_gap still -1; join_type is 5to3 in both cases.
Thm_C19 ==
    NestedSameStrand =>
        /\ v_item.join_type = "5to3"
        /\ IF v_item.breakB - v_item.breakA < QueryDistance
           THEN v_item.svtype = "INS" /\ v_item.query_gap = QueryDistance
           ELSE v_item.svtype = "DUP" /\ v_item.query_gap = -1

\* A nested same-read pair with B first, classified INS on a query distance
\* that the expression of the A-first branch would not have given.
Wit_C19 ==
    /\ NestedSameStrand /\ ~AFirst
    /\ v_item.svtype = "INS"
    /\ v_item.query_gap = v_item.b_qend - v_item.a_qstart
    /\ v_item.query_gap # v_item.b_qstart - v_item.a_qend

\* The pair with every A field and B field exchanged.
Swapped(v) ==
    AlignmentItem(v.chrB, v.chrA, v.priB, v.priA, v.rB, v.rA, v.posB, v.endB, v.posA, v.endA,
                  v.strandB, v.strandA, v.left_clipB, v.right_clipB, v.left_clipA, v.right_clipA,
                  v.b_qstart, v.b_qend, v.a_qstart, v.a_qend, v.read_overlaps_mate)

\* C7 (as claimed): classifying a same-chromosome pair with A and B exchanged
\* gives the same svtype and join_type, with the breaks and the precision
\* flags exchanged.
Cex_C7 ==
    (Classified /\ SameChrom) =>
        LET w == classify_d(Swapped(v_item))
        IN  /\ w.svtype = v_item.svtype
            /\ w.join_type = v_item.join_type
            /\ w.breakA = v_item.breakB /\ w.breakB = v_item.breakA
            /\ w.breakA_precise = v_item.breakB_precise
            /\ w.breakB_precise = v_item.breakA_precise


\* ---------------------------------------------------------------- properties of the consensus call

Made == call # NoCall
ObservedA == {informative[i].breakA : i \in 1..Len(informative)}
ObservedB == {informative[i].breakB : i \in 1..Len(informative)}

\* C8 (as claimed): every call record produced by make_call has svlen >= 0,
\* INS calls whose svlen is the mean of the recorded query_gap values included.
Cex_C8 ==
    Made => call.svlen >= 0

\* posA lies within [min - cipos95A, max + cipos95A] of the observed breakA.
WithinA ==
    \E lo \in ObservedA, hi \in ObservedA :
        lo - call.cipos95A <= call.posA /\ call.posA <= hi + call.cipos95A

\* posB lies within [min - cipos95B, max + cipos95B] of the observed breakB.
WithinB ==
    \E lo \in ObservedB, hi \in ObservedB :
        lo - call.cipos95B <= call.posB /\ call.posB <= hi + call.cipos95B

\* The call went through infer_unmapped_insertion_break_point with a side to move.
Refined ==
    /\ Made
    /\ call.svtype = "INS"
    /\ call.chrA = call.chrB
    /\ QGaps(informative) = <<>>
    /\ (call.preciseA = 0 \/ call.preciseB = 0)

\* C9 (as claimed): for every call, posA lies within [min - cipos95A,
\* max + cipos95A] of the observed breakA positions and posB within
\* [min - cipos95B, max + cipos95B] of the observed breakB positions, INS
\* calls moved by the midpoint / snap-to-adjacent refinement included.
Cex_C9 ==
    Made => (WithinA /\ WithinB)

\* C9 (amended): posA and posB lie within those per-side intervals for every
\* call that the insertion refinement does not move; a call it moves has posA
\* and posB within one base of the range of all observed breakA and breakB
\* positions.
Thm_C9 ==
    Made =>
        IF Refined
        THEN \E lo \in ObservedA \cup ObservedB, hi \in ObservedA \cup ObservedB :
                /\ lo - 1 <= call.posA /\ call.posA <= hi + 1
                /\ lo - 1 <= call.posB /\ call.posB <= hi + 1
        ELSE WithinA /\ WithinB

\* A call from at least two hypotheses that the refinement moved off every
\* observed breakA.
Wit_C9 ==
    /\ Refined
    /\ Len(informative) >= 2
    /\ call.posA \notin ObservedA

MaxClipLen == 2

\* flag & bit, as a truth value.
BitSet(flag, bit) == (flag \div bit) % 2 = 1

\* ct[-1].
Last(ct) == ct[Len(ct)]

\* op == 4 or op == 5.
IsClip(op) == op = 4 \/ op = 5

\* The left and right clip flags read off the first and last cigar operation.
RawClips(ct) ==
    <<IF IsClip(ct[1][1]) THEN 1 ELSE 0, IF IsClip(Last(ct)[1]) THEN 1 ELSE 0>>

\* a_template_start / b_template_start of the same-read case.
TemplateStart(flag, ct) ==
    IF BitSet(flag, 16)
    THEN IF Last(ct)[1] # 0 THEN Last(ct)[2] ELSE 0
    ELSE IF ct[1][1] # 0 THEN ct[1][2] ELSE 0

\* The same-read choice that clears a clip only on a forward alignment.
ChooseClipSameReadForwardOnly(flag, own_start, other_start, cl) ==
    IF cl[1] # 0 /\ cl[2] # 0 /\ ~BitSet(flag, 16)
    THEN IF own_start < other_start THEN <<0, cl[2]>> ELSE <<cl[1], 0>>
    ELSE cl

\* Same read, "choose one soft-clip": the clip pair cl of an alignment with
\* both ends clipped loses one clip by template order and strand.
ChooseClipSameRead(flag, own_start, other_start, cl) ==
    IF cl[1] # 0 /\ cl[2] # 0
    THEN IF own_start < other_start
         THEN IF ~BitSet(flag, 16) THEN <<0, cl[2]>> ELSE <<cl[1], 0>>
         ELSE IF ~BitSet(flag, 16) THEN <<cl[1], 0>> ELSE <<0, cl[2]>>
    ELSE cl

\* Different reads: of two clips the longer one is kept, the right one on a tie.
ChooseClipDifferentRead(ct, cl) ==
    IF cl[1] # 0 /\ cl[2] # 0
    THEN IF ct[1][2] > Last(ct)[2] THEN <<cl[1], 0>> ELSE <<0, cl[2]>>
    ELSE cl

\* mask_soft_clips(aflag, bflag, a_ct, b_ct): <<left_clipA, right_clipA,
\* left_clipB, right_clipB>>.
mask_soft_clips(af, bf, act, bct) ==
    IF BitSet(af, 64) = BitSet(bf, 64)
    THEN IF RawClips(bct) = <<1, 1>> \/ RawClips(act) = <<1, 1>>
         THEN ChooseClipSameRead(af, TemplateStart(af, act), TemplateStart(bf, bct), RawClips(act))
              \o ChooseClipSameRead(bf, TemplateStart(bf, bct), TemplateStart(af, act), RawClips(bct))
         ELSE RawClips(act) \o RawClips(bct)
    ELSE ChooseClipDifferentRead(act, RawClips(act)) \o ChooseClipDifferentRead(bct, RawClips(bct))

\* The flags that matter here: read 1 or read 2 (64), forward or reverse (16).
MaskFlags == {0, 16, 64, 80}

\* A clip operation at a cigar end, or none.
ClipEnds == {<<>>} \cup {<<<<op, n>>>> : op \in {4, 5}, n \in 1..MaxClipLen}

\* Cigars: an aligned block with or without a clip at each end, and the
\* one-operation lists that are a clip only.
Cigars == {l \o <<<<0, 1>>>> \o r : l \in ClipEnds, r \in ClipEnds} \cup (ClipEnds \ {<<>>})

\* The classifier and call_from_reads have nothing in progress.
ClassifyIdle ==
    /\ v_item = BlankItem /\ pc = "new" /\ informative = <<>> /\ precise_a = <<>> /\ precise_b = <<>>
    /\ insert_size = 0 /\ insert_stdev = 0 /\ call = NoCall /\ runs = 0

NotClipIdle == ClassifyIdle /\ UnitIdle /\ MultiIdle /\ AnnotIdle

InitClips ==
    /\ NotClipIdle
    /\ aflag \in MaskFlags
    /\ bflag \in MaskFlags
    /\ a_ct \in Cigars
    /\ b_ct \in Cigars
    /\ clips = <<>>

\* One call of mask_soft_clips on the chosen pair.
MaskSoftClips ==
    /\ clips = <<>>
    /\ clips' = mask_soft_clips(aflag, bflag, a_ct, b_ct)
    /\ UNCHANGED <<aflag, bflag, a_ct, b_ct>>
    /\ UNCHANGED not_clip_vars

NextClips == MaskSoftClips

SpecClips == InitClips /\ [][NextClips]_vars

\* C11: mask_soft_clips returns flags in which no alignment has both its left
\* and its right clip set, for the same read and for different reads, and the
\* flags of an alignment that was not clipped at both ends are returned as read.
Thm_C11 ==
    clips # <<>> =>
        /\ ~(clips[1] = 1 /\ clips[2] = 1)
        /\ ~(clips[3] = 1 /\ clips[4] = 1)
        /\ (RawClips(a_ct) # <<1, 1>> => <<clips[1], clips[2]>> = RawClips(a_ct))
        /\ (RawClips(b_ct) # <<1, 1>> => <<clips[3], clips[4]>> = RawClips(b_ct))

\* A reverse alignment A clipped at both ends and a B clipped on the left only,
\* both of the same read, have been resolved.
Wit_C11 ==
    /\ clips # <<>>
    /\ BitSet(aflag, 64) = BitSet(bflag, 64)
    /\ BitSet(aflag, 16)
    /\ RawClips(a_ct) = <<1, 1>>
    /\ RawClips(b_ct) = <<1, 0>>
    /\ <<clips[3], clips[4]>> = <<1, 0>>

\* ---------------------------------------------------------------- count_attributes

\* An alignment as single and one_edge receive it: the pysam record a together
\* with the entries 5 and 6 of its node tuple (cigar_index, event_pos). The
\* reference and the mate's reference are chromosome 0.
Read(qname, flag, pos, ct, has_sa, cigar_index, event_pos, tlen) ==
    [qname |-> qname, flag |-> flag, rname |-> 0, rnext |-> 0, pos |-> pos, cigartuples |-> ct,
     has_sa |-> has_sa, cigar_index |-> cigar_index, event_pos |-> event_pos, tlen |-> tlen]

\* flag & 2304.
NotPrimary(flag) == BitSet(flag, 256) \/ BitSet(flag, 2048)

\* The counters of the aggregate before any read is counted; paired_end is the
\* set of template names whose first primary alignment has been seen.
AttrStart(spanning) ==
    [kind |-> "attrs", pe |-> 0, supp |-> 0, sc |-> 0, NP |-> 0, plus |-> 0, minus |-> 0,
     spanning |-> Len(spanning), paired_end |-> {}]

\* NP and the strand counters, counted the same way for every alignment.
CountCommon(st, a) ==
    [st EXCEPT !.NP = IF BitSet(a.flag, 2) THEN @ + 1 ELSE @,
               !.plus = IF BitSet(a.flag, 16) THEN @ ELSE @ + 1,
               !.minus = IF BitSet(a.flag, 16) THEN @ + 1 ELSE @]

\* A primary alignment of reads1 / reads2: pe for the second primary of a
\* template, and for an insertion the single primary of a normal pair with an
\* SA tag or with an unmapped mate.
CountPrimary(st, a, is_insertion) ==
    IF a.qname \in st.paired_end
    THEN [st EXCEPT !.pe = @ + 1]
    ELSE [st EXCEPT !.paired_end = @ \cup {a.qname},
                    !.pe = IF is_insertion /\ ((a.has_sa /\ BitSet(a.flag, 2)) \/ BitSet(a.flag, 8))
                           THEN @ + 1 ELSE @]

\* A primary spanning alignment: pe += 2 for the second primary of a template.
CountSpanningPrimary(st, a) ==
    IF a.qname \in st.paired_end
    THEN [st EXCEPT !.pe = @ + 2]
    ELSE [st EXCEPT !.paired_end = @ \cup {a.qname}]

\* The soft-clip counter: ct[0][0] == 4 or ct[-1][0] == 4.
CountSoftClip(st, a) ==
    IF a.cigartuples[1][1] = 4 \/ Last(a.cigartuples)[1] = 4 THEN [st EXCEPT !.sc = @ + 1] ELSE st

\* normal_attrs, the body of the loop over reads1 and reads2.
NormalReadStep(st, a, is_insertion) ==
    CountSoftClip(
        CountCommon(IF NotPrimary(a.flag) THEN [st EXCEPT !.supp = @ + 1]
                    ELSE CountPrimary(st, a, is_insertion), a), a)

\* normal_attrs, the body of the loop over the spanning alignments.
NormalSpanStep(st, a) ==
    CountCommon(IF ~BitSet(a.flag, 256) THEN CountSpanningPrimary(st, a)
                ELSE IF NotPrimary(a.flag) THEN [st EXCEPT !.supp = @ + 2]
                ELSE st, a)

\* normal_attrs(reads1, reads2, spanning, min_support, svtype): the counters
\* after both loops; the means of NM, MAPQ, AS and the gap and SA statistics
\* are left out. min_support is not read.
normal_attrs(reads1, reads2, spanning, minsup, svtype) ==
    LET reads == reads1 \o reads2
        Loop1[i \in 0..Len(reads)] ==
            IF i = 0 THEN AttrStart(spanning)
            ELSE CHOOSE r \in {NormalReadStep(st, reads[i], svtype = "INS") : st \in {Loop1[i - 1]}} : TRUE
        Loop2[i \in 0..Len(spanning)] ==
            IF i = 0 THEN Loop1[Len(reads)]
            ELSE CHOOSE r \in {NormalSpanStep(st, spanning[i]) : st \in {Loop2[i - 1]}} : TRUE
    IN  Loop2[Len(spanning)]

\* The empty aggregate {} and the KeyError raised on the key "n_gaps".
EmptyAttrs == [kind |-> "empty"]
KeyErrorAttrs == [kind |-> "KeyError"]

\* extended_attrs(reads1, reads2, spanning, min_support, svtype): its dict r
\* has no key "n_gaps", so r["n_gaps"].append raises in the first iteration of
\* either loop, and without any alignment the final loop over the keys raises
\* unless pe + supp = 0 < min_support returned {} before.
extended_attrs(reads1, reads2, spanning, minsup, svtype) ==
    IF reads1 \o reads2 # <<>> THEN KeyErrorAttrs
    ELSE IF spanning # <<>> THEN KeyErrorAttrs
    ELSE IF 0 + 0 < minsup THEN EmptyAttrs
    ELSE KeyErrorAttrs

count_attributes(reads1, reads2, spanning, minsup, ext, svtype) ==
    IF ext # 0
    THEN extended_attrs(reads1, reads2, spanning, minsup, svtype)
    ELSE normal_attrs(reads1, reads2, spanning, minsup, svtype)

\* ---------------------------------------------------------------- spanning tuples

\* 0 < cigar_index < len(a.cigartuples) - 1: the alignment spans the event.
IsSpanning(a) == 0 < a.cigar_index /\ a.cigar_index < Len(a.cigartuples) - 1

\* a.cigartuples[cigar_index], the index counted from 0 as in the code.
EventOp(a) == a.cigartuples[a.cigar_index + 1]

\* a.reference_end: pos plus the reference bases of the cigar (M and D).
RECURSIVE RefLen(_)
RefLen(ct) ==
    IF ct = <<>> THEN 0
    ELSE (IF Head(ct)[1] \in {0, 2} THEN Head(ct)[2] ELSE 0) + RefLen(Tail(ct))

reference_end(a) == a.pos + RefLen(a.cigartuples)

within_read_end_position(event_pos, svtype, cigartuples, cigar_index) ==
    IF svtype = 1 THEN event_pos + 1 ELSE event_pos + cigartuples[cigar_index + 1][2]

\* The end written by guess_informative_pair and one_edge.
InlineEnd(a) ==
    IF EventOp(a)[1] = 1 THEN a.event_pos + 1 ELSE a.event_pos + EventOp(a)[2] + 1

\* The spanning tuple of single: (op, chromosome, start, end, length, alignment).
SingleSpanningTuple(a) ==
    <<EventOp(a)[1], a.rname, a.event_pos,
      within_read_end_position(a.event_pos, EventOp(a)[1], a.cigartuples, a.cigar_index),
      EventOp(a)[2], a>>

\* The spanning tuple of guess_informative_pair.
GuessSpanningTuple(a) ==
    <<EventOp(a)[1], a.rname, a.event_pos, InlineEnd(a), EventOp(a)[2], a>>

\* The spanning tuple of one_edge for an alignment of the u side.
EdgeSpanningTupleU(a) ==
    <<EventOp(a)[1], a.rname, a.event_pos, InlineEnd(a), a.event_pos + EventOp(a)[2] + 1, a>>

\* The spanning tuple of one_edge for an alignment of the v side.
EdgeSpanningTupleV(a) ==
    <<EventOp(a)[1], a.rname, a.event_pos, InlineEnd(a), a.event_pos + EventOp(a)[2], a>>

\* [i for i in spanning_alignments if i[0] == svtype_m].
RECURSIVE MajoritySpanning(_, _)
MajoritySpanning(tuples, svtype_m) ==
    IF tuples = <<>> THEN <<>>
    ELSE (IF Head(tuples)[1] = svtype_m THEN <<Head(tuples)>> ELSE <<>>)
         \o MajoritySpanning(Tail(tuples), svtype_m)

\* The spanning tuples kept without the filter on the majority operation.
SpanningKeptUnfiltered(tuples) == tuples

\* The spanning tuples a call is made from: those of the most common operation.
SpanningKept(tuples) ==
    MajoritySpanning(tuples, MostCommon([i \in 1..Len(tuples) |-> tuples[i][1]]))

\* The call made from the kept spanning tuples (all of one operation); svlen
\* is the truncated mean of the tuples' fifth entry.
SpanningCall(kept) ==
    LET posA_arr == [i \in 1..Len(kept) |-> kept[i][3]]
        posB_arr == [i \in 1..Len(kept) |-> kept[i][4]]
        posA == Median2(posA_arr) \div 2
        posB == Median2(posB_arr) \div 2
    IN  [svtype |-> IF kept[1][1] = 2 THEN "DEL" ELSE "INS", join_type |-> "3to5",
         chrA |-> kept[1][2], chrB |-> kept[1][2], posA |-> posA, posB |-> posB,
         cipos95A |-> Abs(Percentile975(posA_arr) - posA),
         cipos95B |-> Abs(Percentile975(posB_arr) - posB),
         preciseA |-> 1, preciseB |-> 1,
         svlen |-> TruncDiv(SumSeq([i \in 1..Len(kept) |-> kept[i][5]]), Len(kept))]

\* [i[5] for i in spanning_alignments].
SpanningReads(kept) == [i \in 1..Len(kept) |-> kept[i][6]]

\* ---------------------------------------------------------------- single and one_edge

\* The evidence of one template in a unit of work: its alignments, for a pair
\* of alignments a, b the item make_sv_alignment_item(a, b) builds, and the
\* side (u or v) of one_edge that an unpaired alignment arrives on. Of a pair,
\* a arrives on the u side and b on the v side, and a's event position is the
\* smaller one, so that guess_informative_pair and call_from_reads both take
\* the pair as (a, b).
Template(reads, item, side) == [reads |-> reads, item |-> item, side |-> side]

\* query_start_end_from_cigartuples, one step on <<start, end, i, stopped>>.
QueryStep(st, op) ==
    IF st[4] THEN st
    ELSE IF op[1] = 0 \/ op[1] = 1 THEN <<st[1], st[2] + op[2], TRUE, FALSE>>
    ELSE IF IsClip(op[1])
    THEN IF ~st[3] THEN <<st[1] + op[2], st[2] + op[2], TRUE, FALSE>> ELSE <<st[1], st[2], TRUE, TRUE>>
    ELSE <<st[1], st[2], TRUE, FALSE>>

\* query_start_end_from_cigartuples(r): <<start, end>>.
query_start_end_from_cigartuples(ct) ==
    LET Loop[i \in 0..Len(ct)] ==
            IF i = 0 THEN <<0, 0, FALSE, FALSE>>
            ELSE CHOOSE r \in {QueryStep(st, ct[i]) : st \in {Loop[i - 1]}} : TRUE
    IN  <<Loop[Len(ct)][1], Loop[Len(ct)][2]>>

\* make_sv_alignment_item, the last step: of two clips of one alignment the
\* shorter is cleared, the right one on a tie.
ClearDouble(ct, cl) ==
    IF cl[1] # 0 /\ cl[2] # 0
    THEN IF ct[1][2] >= Last(ct)[2] THEN <<cl[1], 0>> ELSE <<0, cl[2]>>
    ELSE cl

\* make_sv_alignment_item(aln, aln), as single calls it for a generic insertion.
make_sv_alignment_item_self(aln) ==
    LET m == mask_soft_clips(aln.flag, aln.flag, aln.cigartuples, aln.cigartuples)
        clA == ClearDouble(aln.cigartuples, <<m[1], m[2]>>)
        clB == ClearDouble(aln.cigartuples, <<m[3], m[4]>>)
        q == query_start_end_from_cigartuples(aln.cigartuples)
        pri == IF NotPrimary(aln.flag) THEN 0 ELSE 1
        rd == IF BitSet(aln.flag, 64) THEN 1 ELSE 2
        strand == IF BitSet(aln.flag, 16) THEN 5 ELSE 3
        rom == IF BitSet(aln.flag, 1) /\ ~BitSet(aln.flag, 8)
                  /\ is_overlapping(aln.pos, reference_end(aln), aln.pos, reference_end(aln))
               THEN 1 ELSE 0
    IN  AlignmentItem(aln.rname, aln.rname, pri, pri, rd, rd, aln.pos, reference_end(aln),
                      aln.pos, reference_end(aln), strand, strand,
                      clA[1], clA[2], clB[1], clB[2], q[1], q[2], q[1], q[2], rom)

\* single, the hypothesis of a generic insertion: <<v_item>>, or <<>> when the
\* alignment is supplementary or gives no side to guess.
GenericInsertion(aln) ==
    LET v == make_sv_alignment_item_self(aln)
    IN  IF NotPrimary(aln.flag) THEN <<>>
        ELSE IF v.left_clipA # 0
        THEN <<SetBreaks(v, aln.pos, 1, aln.pos, 1, "INS", "5to3")>>
        ELSE IF v.right_clipA # 0
        THEN <<SetBreaks(v, reference_end(aln), 1, reference_end(aln), 1, "INS", "3to5")>>
        ELSE IF BitSet(aln.flag, 1) /\ BitSet(aln.flag, 2)
        THEN IF BitSet(aln.flag, 16)
             THEN <<SetBreaks(v, aln.pos, 0, aln.pos, 0, "INS", "5to3")>>
             ELSE <<SetBreaks(v, reference_end(aln), 0, reference_end(aln), 0, "INS", "3to5")>>
        ELSE <<>>

\* single, what one template adds to spanning_alignments, informative,
\* informative_reads and generic_insertions (guess_informative_pair for two
\* alignments).
SingleTemplate(t) ==
    LET none == [spanning |-> <<>>, informative |-> <<>>, informative_reads |-> <<>>, generic |-> <<>>]
        a == t.reads[1]
        b == t.reads[2]
    IN  IF Len(t.reads) > 1
        THEN IF IsSpanning(a) THEN [none EXCEPT !.spanning = <<GuessSpanningTuple(a)>>]
             ELSE IF IsSpanning(b) THEN [none EXCEPT !.spanning = <<GuessSpanningTuple(b)>>]
             ELSE [none EXCEPT !.informative =
                                   <<classify_d(t.item)>>,
                               !.informative_reads = t.reads]
        ELSE IF IsSpanning(a) THEN [none EXCEPT !.spanning = <<SingleSpanningTuple(a)>>]
        ELSE [none EXCEPT !.generic = <<a>>]

\* The lists of two stretches of the loop, joined.
JoinLists(x, y) ==
    [spanning |-> x.spanning \o y.spanning, informative |-> x.informative \o y.informative,
     informative_reads |-> x.informative_reads \o y.informative_reads, generic |-> x.generic \o y.generic]

\* single, the loop over the templates.
SingleLoop(templates) ==
    LET Loop[i \in 0..Len(templates)] ==
            IF i = 0 THEN [spanning |-> <<>>, informative |-> <<>>, informative_reads |-> <<>>, generic |-> <<>>]
            ELSE CHOOSE r \in {JoinLists(x, y) : x \in {Loop[i - 1]}, y \in {SingleTemplate(templates[i])}} : TRUE
    IN  Loop[Len(templates)]

\* The hypotheses of the generic insertions, in order.
RECURSIVE GenericInsertions(_)
GenericInsertions(alns) ==
    IF alns = <<>> THEN <<>> ELSE GenericInsertion(Head(alns)) \o GenericInsertions(Tail(alns))

\* [i.breakA for i in items if i.breakA_precise].
RECURSIVE PreciseAOf(_)
PreciseAOf(items) ==
    IF items = <<>> THEN <<>>
    ELSE (IF Head(items).breakA_precise # 0 THEN <<Head(items).breakA>> ELSE <<>>) \o PreciseAOf(Tail(items))

\* [i.breakB for i in items if i.breakB_precise].
RECURSIVE PreciseBOf(_)
PreciseBOf(items) ==
    IF items = <<>> THEN <<>>
    ELSE (IF Head(items).breakB_precise # 0 THEN <<Head(items).breakB>> ELSE <<>>) \o PreciseBOf(Tail(items))

\* All alignments of the unit, template by template.
RECURSIVE AllReads(_)
AllReads(templates) ==
    IF templates = <<>> THEN <<>> ELSE Head(templates).reads \o AllReads(Tail(templates))

\* What single and one_edge return: {} or the call with its counted attributes;
\* and the KeyError that leaves them instead.
NoResult == [kind |-> "none"]
RaisedResult == [kind |-> "KeyError"]
CallResult(c, at) == [kind |-> "call", info |-> c, attrs |-> at]

\* The locals of single / one_edge when it returns or raises: the call made,
\* what count_attributes returned, the aggregate tested, and the outcome
\* (<<>> for a local never assigned).
Returned(c, at, fin, res) == [info |-> c, attrs |-> at, final |-> fin, result |-> res]

\* pe + supp + 2 * spanning of an aggregate.
Aggregate(at) == at.pe + at.supp + 2 * at.spanning

\* single, lines 586-591: a unit of one template is dropped unless some
\* alignment is not a proper pair, has its mate on another chromosome, has a
\* cigar index other than 2 or a template length above min_distance.
SingleTemplateFilter(templates, min_distance) ==
    /\ Len(templates) = 1
    /\ ~\E i \in 1..Len(AllReads(templates)) :
          LET r == AllReads(templates)[i]
          IN  \/ ~BitSet(r.flag, 2)
              \/ r.rname # r.rnext
              \/ r.cigar_index # 2
              \/ (BitSet(r.flag, 1) /\ Abs(r.tlen) > min_distance)

\* single, lines 752-757: the call is dropped for low support.
SingleDrops(c, at, minsup) ==
    /\ Aggregate(at) < minsup
    /\ (c.svtype = "INS" => ~(at.supp + at.spanning > 0 /\ at.supp + at.sc + at.spanning > minsup))

\* single, lines 740-759: the attributes are counted, pe is raised to
\* min_found_support when the aggregate is below it, and the call is dropped
\* for low support. attrs["pe"] is read before the test for an empty
\* aggregate and raises KeyError on one.
SingleCount(c, min_found_support, informative_reads, kept, minsup, ext) ==
    LET at == count_attributes(informative_reads, <<>>, SpanningReads(kept), minsup, ext, c.svtype)
        hacked == IF min_found_support > Aggregate(at) THEN [at EXCEPT !.pe = min_found_support] ELSE at
    IN  IF at.kind # "attrs" THEN Returned(c, at, <<>>, RaisedResult)
        ELSE IF SingleDrops(c, hacked, minsup) THEN Returned(c, at, hacked, NoResult)
        ELSE Returned(c, at, hacked, CallResult(c, hacked))

\* single, lines 716-738: the call from spanning alignments; svlen is raised to
\* the distance of the two positions.
SingleSpanningCall(kept) ==
    LET c == SpanningCall(kept)
    IN  [c EXCEPT !.svlen = IF @ >= Abs(c.posB - c.posA) THEN @ ELSE Abs(c.posB - c.posA)]

\* single after the loop over the templates, L being the lists it built.
SingleTail(L, isize, istdev, minsup, ext) ==
    LET generic == IF Len(L.informative_reads) + 2 * Len(L.spanning) < minsup
                   THEN GenericInsertions(L.generic) ELSE <<>>
        inf == L.informative \o generic
        pa == PreciseAOf(inf)
        pb == PreciseBOf(L.informative)
        keys == [i \in 1..Len(inf) |-> <<inf[i].svtype, inf[i].join_type>>]
    IN  IF Len(inf) = 0 /\ Len(L.spanning) = 0
        THEN Returned(<<>>, <<>>, <<>>, NoResult)
        ELSE IF Len(L.spanning) > 0
        THEN CHOOSE r \in {SingleCount(SingleSpanningCall(kept), Len(kept), L.informative_reads, kept, minsup, ext)
                              : kept \in {SpanningKept(L.spanning)}} : TRUE
        ELSE CHOOSE r \in {SingleCount(c, Count(keys, MostCommon(keys)), L.informative_reads, <<>>, minsup, ext)
                              : c \in {make_call(inf, pa, pb, MostCommon(keys)[1], MostCommon(keys)[2],
                                                 isize, istdev)}} : TRUE

\* single(infile, rds, insert_size, insert_stdev, clip_length, min_support,
\* to_assemble, extended_tags) up to the assembly of contigs: what
\* count_attributes returned (<<>> when it was not called) and the result.
single(templates, isize, istdev, minsup, ext) ==
    IF SingleTemplateFilter(templates, isize + 2 * istdev)
    THEN Returned(<<>>, <<>>, <<>>, NoResult)
    ELSE CHOOSE r \in {SingleTail(L, isize, istdev, minsup, ext) : L \in {SingleLoop(templates)}} : TRUE

\* one_edge: the alignments arriving on the u side and on the v side, in order.
RECURSIVE SideReads(_, _)
SideReads(templates, side) ==
    IF templates = <<>> THEN <<>>
    ELSE LET t == Head(templates)
         IN  (IF Len(t.reads) > 1
              THEN (IF side = "u" THEN <<t.reads[1]>> ELSE <<t.reads[2]>>)
              ELSE (IF t.side = side THEN t.reads ELSE <<>>))
             \o SideReads(Tail(templates), side)

\* one_edge, the two loops: the spanning tuples of one side.
RECURSIVE EdgeSpanning(_, _)
EdgeSpanning(reads, side) ==
    IF reads = <<>> THEN <<>>
    ELSE (IF IsSpanning(Head(reads))
          THEN <<IF side = "u" THEN EdgeSpanningTupleU(Head(reads)) ELSE EdgeSpanningTupleV(Head(reads))>>
          ELSE <<>>)
         \o EdgeSpanning(Tail(reads), side)

\* call_from_reads, the loop: the classified items of the templates found on
\* both sides.
RECURSIVE EdgeInformative(_)
EdgeInformative(templates) ==
    IF templates = <<>> THEN <<>>
    ELSE (IF Len(Head(templates).reads) > 1 THEN <<classify_d(Head(templates).item)>> ELSE <<>>)
         \o EdgeInformative(Tail(templates))

\* one_edge, line 1957: the call is dropped for low support.
EdgeDrops(c, at, n_spanning, minsup) ==
    at.pe + at.supp + n_spanning < minsup

\* one_edge, lines 1953-1960: the attributes are counted and the call is
\* dropped on an empty aggregate or for low support.
EdgeCount(c, u_reads, v_reads, kept, minsup, ext) ==
    LET at == count_attributes(u_reads, v_reads, SpanningReads(kept), minsup, ext, c.svtype)
    IN  IF at.kind = "KeyError" THEN Returned(c, at, <<>>, RaisedResult)
        ELSE IF at.kind = "empty" THEN Returned(c, at, <<>>, NoResult)
        ELSE IF EdgeDrops(c, at, Len(kept), minsup) THEN Returned(c, at, at, NoResult)
        ELSE Returned(c, at, at, CallResult(c, at))

\* one_edge(infile, u_reads_info, v_reads_info, clip_length, insert_size,
\* insert_stdev, min_support, block_edge, assemble, extended_tags) up to the
\* assembly of contigs.
one_edge(templates, isize, istdev, minsup, ext) ==
    LET u_reads == SideReads(templates, "u")
        v_reads == SideReads(templates, "v")
        spanning == EdgeSpanning(u_reads, "u") \o EdgeSpanning(v_reads, "v")
        inf == EdgeInformative(templates)
    IN  IF Len(spanning) > 0
        THEN CHOOSE r \in {EdgeCount(SpanningCall(kept), SpanningReads(kept), <<>>, kept, minsup, ext)
                              : kept \in {SpanningKept(spanning)}} : TRUE
        ELSE IF inf = <<>> THEN Returned(<<>>, <<>>, <<>>, NoResult)
        ELSE CHOOSE r \in {EdgeCount(c, u_reads, v_reads, <<>>, minsup, ext)
                              : c \in {call_from_reads_call(inf, PreciseAOf(inf), PreciseBOf(inf), isize, istdev)}} : TRUE

\* ---------------------------------------------------------------- units of work

\* A unit holds at most MaxTemplates templates.
MaxTemplates == 3
\* min_support ranges over 1..MaxSupport.
MaxSupport == 2

\* The templates a unit is drawn from, before the template name is set:
\* a primary and its supplementary of the same read, both soft-clipped, that
\* classify as INS; two soft-clipped primaries of a pair that classify as DEL;
\* alignments spanning an insertion of 2 bases (on either side), an insertion
\* of 1 base and a deletion of 3 bases; a soft-clipped primary and a
\* soft-clipped supplementary without partner.
UnitTemplates ==
    { Template(<<Read(0, 67, 0, <<<<0, 2>>, <<4, 5>>>>, FALSE, -1, 2, 0),
                 Read(0, 2115, 4, <<<<4, 5>>, <<0, 2>>>>, TRUE, -1, 4, 0)>>,
               AlignmentItem(0, 0, 1, 0, 1, 1,  0, 2,  4, 6,   3, 3,  0, 1, 1, 0,  0, 2, 5, 7,  0), "u"),
      Template(<<Read(0, 99, 0, <<<<0, 3>>, <<4, 1>>>>, FALSE, -1, 3, 9),
                 Read(0, 147, 8, <<<<4, 1>>, <<0, 2>>>>, FALSE, -1, 8, -9)>>,
               AlignmentItem(0, 0, 1, 1, 1, 2,  0, 3,  8, 10,  3, 5,  0, 1, 1, 0,  0, 3, 1, 3,  0), "u"),
      Template(<<Read(0, 3, 0, <<<<4, 1>>, <<0, 2>>, <<1, 2>>, <<0, 2>>>>, FALSE, 2, 2, 0)>>, BlankItem, "u"),
      Template(<<Read(0, 3, 0, <<<<4, 1>>, <<0, 2>>, <<1, 2>>, <<0, 2>>>>, FALSE, 2, 2, 0)>>, BlankItem, "v"),
      Template(<<Read(0, 0, 0, <<<<0, 3>>, <<1, 1>>, <<0, 1>>>>, FALSE, 1, 3, 0)>>, BlankItem, "u"),
      Template(<<Read(0, 0, 0, <<<<0, 2>>, <<2, 3>>, <<0, 2>>>>, FALSE, 1, 2, 0)>>, BlankItem, "v"),
      Template(<<Read(0, 3, 4, <<<<4, 2>>, <<0, 2>>>>, FALSE, -1, 4, 0)>>, BlankItem, "u"),
      Template(<<Read(0, 2049, 5, <<<<0, 2>>, <<4, 2>>>>, TRUE, -1, 7, 0)>>, BlankItem, "v") }

\* The template with its alignments named q.
Named(t, q) == [t EXCEPT !.reads = [i \in 1..Len(t.reads) |-> [t.reads[i] EXCEPT !.qname = q]]]

InitUnit ==
    /\ ClipIdle
    /\ MultiIdle
    /\ AnnotIdle
    /\ v_item = BlankItem /\ pc = "new" /\ informative = <<>> /\ precise_a = <<>> /\ precise_b = <<>>
    /\ insert_size = 1 /\ insert_stdev = 1 /\ call = NoCall /\ runs = 0
    /\ unit = <<>>
    /\ min_support \in 1..MaxSupport
    /\ extended_tags \in {0, 1}
    /\ upath = ""
    /\ info = <<>>
    /\ attrs = <<>>
    /\ final = <<>>
    /\ result = <<>>

\* The alignments of one more template join the unit.
AddTemplate ==
    /\ upath = ""
    /\ Len(unit) < MaxTemplates
    /\ \E t \in UnitTemplates : unit' = Append(unit, Named(t, Len(unit) + 1))
    /\ UNCHANGED <<min_support, extended_tags, upath, info, attrs, final, result>>
    /\ UNCHANGED not_unit_vars

\* multi hands the unit to single.
RunSingle ==
    /\ upath = ""
    /\ unit # <<>>
    /\ upath' = "single"
    /\ \E r \in {single(unit, insert_size, insert_stdev, min_support, extended_tags)} :
          info' = r.info /\ attrs' = r.attrs /\ final' = r.final /\ result' = r.result
    /\ UNCHANGED <<unit, min_support, extended_tags>>
    /\ UNCHANGED not_unit_vars

\* multi hands the unit to one_edge.
RunOneEdge ==
    /\ upath = ""
    /\ unit # <<>>
    /\ upath' = "one_edge"
    /\ \E r \in {one_edge(unit, insert_size, insert_stdev, min_support, extended_tags)} :
          info' = r.info /\ attrs' = r.attrs /\ final' = r.final /\ result' = r.result
    /\ UNCHANGED <<unit, min_support, extended_tags>>
    /\ UNCHANGED not_unit_vars

NextUnit == AddTemplate \/ RunSingle \/ RunOneEdge

SpecUnit == InitUnit /\ [][NextUnit]_vars

\* ---------------------------------------------------------------- properties of single and one_edge

\* The unit has been processed and its support was tested on an aggregate.
Tested == upath # "" /\ final # <<>>

\* The exception for insertions: supp + spanning > 0 and
\* supp + sc + spanning > min_support on an INS call.
InsException ==
    /\ info.svtype = "INS"
    /\ final.supp + final.spanning > 0
    /\ final.supp + final.sc + final.spanning > min_support

\* C12 (as claimed): on the edge path and on the single-cluster path, a unit
\* whose final aggregate has pe + supp + 2 * spanning < min_support returns no
\* call, except that an INS unit with supp + spanning > 0 and
\* supp + sc + spanning > min_support is accepted and returns a call.
Cex_C12 ==
    (Tested /\ Aggregate(final) < min_support) =>
        (result.kind = "call" <=> InsException)

\* C13 (as claimed): count_attributes returns the empty aggregate whenever the
\* accumulated pe + supp is below min_support, in basic and in extended mode.
Cex_C13 ==
    (upath # "" /\ attrs # <<>> /\ attrs.kind # "empty") =>
        (attrs.kind = "attrs" /\ attrs.pe + attrs.supp >= min_support)


\* The spanning tuples the path taken collected from the unit, before the
\* filter on the most common operation.
UnitSpanningTuples ==
    IF upath = "single" THEN SingleLoop(unit).spanning
    ELSE EdgeSpanning(SideReads(unit, "u"), "u") \o EdgeSpanning(SideReads(unit, "v"), "v")

\* The alignments of the unit that span an insertion.
UnitSpanningInsertions ==
    {a \in {AllReads(unit)[i] : i \in 1..Len(AllReads(unit))} : IsSpanning(a) /\ EventOp(a)[1] = 1}

\* The tuple claimed for an alignment spanning an insertion of length L:
\* (insertion, chromosome, event_pos, event_pos + 1, L, alignment).
InsertionTuple(a) == <<1, a.rname, a.event_pos, a.event_pos + 1, EventOp(a)[2], a>>

\* The lengths of the cigar operations of the tuples.
OpLengths(tuples) == [i \in 1..Len(tuples) |-> EventOp(tuples[i][6])[2]]

\* C17 (as claimed): each path that builds spanning tuples (single,
\* guess_informative_pair, one_edge on the u side and on the v side) gives an
\* alignment spanning an insertion of length L the tuple (insertion,
\* chromosome, event_pos, event_pos + 1, L, alignment), and a call made from
\* spanning insertions alone has svlen the truncated mean of those lengths.
Cex_C17 ==
    /\ \A a \in UnitSpanningInsertions :
          /\ SingleSpanningTuple(a) = InsertionTuple(a)
          /\ GuessSpanningTuple(a) = InsertionTuple(a)
          /\ EdgeSpanningTupleU(a) = InsertionTuple(a)
          /\ EdgeSpanningTupleV(a) = InsertionTuple(a)
    /\ (/\ upath # ""
        /\ info # <<>>
        /\ UnitSpanningTuples # <<>>
        /\ \A i \in 1..Len(UnitSpanningTuples) : UnitSpanningTuples[i][1] = 1) =>
          info.svlen = TruncDiv(SumSeq(OpLengths(UnitSpanningTuples)), Len(UnitSpanningTuples))

\* The operation most common among the spanning tuples.
MajorityOp(tuples) == MostCommon([i \in 1..Len(tuples) |-> tuples[i][1]])

\* The spanning tuples that have the operation op.
OfOp(tuples, op) == SelectSeq(tuples, LAMBDA t : t[1] = op)

\* m is int(np.median(arr)) for an array of positions >= 0.
IsIntMedian(m, arr) == \E d \in {Median2(arr)} : 2 * m <= d /\ d < 2 * m + 2

HashSpace == 4
\* while steps < 5: the reads tried after the first one.
RetrySteps == 5

\* xxhasher(bam_get_qname(a), len(a.qname), 42): a hash of the template name
\* into a fixed range; names HashSpace apart collide.
xxhasher(qname) == qname % HashSpace

\* The alignment file, by record offset: records 1, 4 and 6 span an
\* insertion, records 2 and 8 a deletion, records 3, 5, 7 and 9 are soft-clipped;
\* records 3 and 7 share flag and position.
BamFile ==
    << Read(1, 3, 0, <<<<4, 1>>, <<0, 2>>, <<1, 2>>, <<0, 2>>>>, FALSE, -1, 0, 0),
       Read(2, 0, 0, <<<<0, 2>>, <<2, 3>>, <<0, 2>>>>, FALSE, -1, 0, 0),
       Read(3, 3, 4, <<<<4, 2>>, <<0, 2>>>>, FALSE, -1, 0, 0),
       Read(4, 0, 1, <<<<0, 3>>, <<1, 1>>, <<0, 1>>>>, FALSE, -1, 0, 0),
       Read(5, 2049, 5, <<<<0, 2>>, <<4, 2>>>>, TRUE, -1, 0, 0),
       Read(6, 0, 2, <<<<0, 3>>, <<1, 1>>, <<0, 1>>>>, FALSE, -1, 0, 0),
       Read(7, 3, 4, <<<<4, 2>>, <<0, 2>>>>, FALSE, -1, 0, 0),
       Read(8, 0, 3, <<<<0, 2>>, <<2, 3>>, <<0, 2>>>>, FALSE, -1, 0, 0),
       Read(9, 3, 6, <<<<4, 2>>, <<0, 2>>>>, FALSE, -1, 0, 0) >>

\* The node of alignment a recorded at offset p:
\* (name hash, flag, pos, rname, offset, cigar index, event pos).
NodeInfo(a, p, cigar_index, event_pos) ==
    <<xxhasher(a.qname), a.flag, a.pos, a.rname, p, cigar_index, event_pos>>

\* n2n, by int_node. Nodes 1, 2, 8, 9, 12 and 13 carry the offset of their
\* record; the record of node 3 lies 2 records after its offset, that of node
\* 10 lies 1 after, that of node 4 lies 5 after, that of node 5 lies 6 after,
\* that of node 11 lies 7 after, that of node 6 lies 4 after its offset behind
\* a record of the same flag and position; the record of node 7 lies before
\* its offset, which is 3 records from the end of the file.
n2n ==
    << NodeInfo(BamFile[1], 1, 2, 2),
       NodeInfo(BamFile[2], 2, 1, 2),
       NodeInfo(BamFile[4], 2, 1, 4),
       NodeInfo(BamFile[8], 3, 1, 5),
       NodeInfo(BamFile[8], 2, 1, 5),
       NodeInfo(BamFile[7], 3, -1, 4),
       NodeInfo(BamFile[1], 6, 2, 2),
       NodeInfo(BamFile[3], 3, -1, 4),
       NodeInfo(BamFile[5], 5, -1, 7),
       NodeInfo(BamFile[6], 5, 1, 5),
       NodeInfo(BamFile[8], 1, 1, 5),
       NodeInfo(BamFile[7], 7, -1, 4),
       NodeInfo(BamFile[9], 9, -1, 6) >>

\* (v, a.flag, a.pos, a.rname, p) == node.
Matches(a, n) ==
    <<xxhasher(a.qname), a.flag, a.pos, a.rname, n[5]>> = <<n[1], n[2], n[3], n[4], n[5]>>

\* What the reads from the file for one node come to: the record found and
\* the number of records read, or the node dropped, or StopIteration raised
\* by next(infile) at the end of the file.
Found(pos, taken) == [kind |-> "found", at |-> pos, taken |-> taken]
Dropped(taken) == [kind |-> "dropped", at |-> 0, taken |-> taken]
StopIteration(taken) == [kind |-> "StopIteration", at |-> 0, taken |-> taken]

\* The retry loop running while steps <= 5.
RECURSIVE RetriesOneMore(_, _, _)
RetriesOneMore(n, pos, steps) ==
    IF steps <= RetrySteps
    THEN IF pos > Len(BamFile) THEN StopIteration(steps + 1)
         ELSE IF Matches(BamFile[pos], n) THEN Found(pos, steps + 2)
         ELSE RetriesOneMore(n, pos + 1, steps + 1)
    ELSE Dropped(steps + 1)

\* get_reads, lines 2013-2024: the retry loop, the file standing at record pos
\* after steps retries.
RECURSIVE Retries(_, _, _)
Retries(n, pos, steps) ==
    IF steps < RetrySteps
    THEN IF pos > Len(BamFile) THEN StopIteration(steps + 1)
         ELSE IF Matches(BamFile[pos], n) THEN Found(pos, steps + 2)
         ELSE Retries(n, pos + 1, steps + 1)
    ELSE Dropped(steps + 1)

\* get_reads, lines 2001-2024: infile.seek(p), the first read and the retries.
SeekAndRead(n) ==
    IF n[5] > Len(BamFile) THEN StopIteration(0)
    ELSE IF Matches(BamFile[n[5]], n) THEN Found(n[5], 1)
    ELSE Retries(n, n[5] + 1, 0)

\* get_reads, lines 1999-2024, on the state [aligns, reads, log, raised]: node
\* n is read from the file, f being what the reads came to, and buffered when
\* add is set.
FileStep(st, int_node, n, add, f) ==
    LET e == [node |-> int_node, cached |-> FALSE, kind |-> f.kind, at |-> f.at, taken |-> f.taken]
    IN  IF f.kind = "found"
        THEN [st EXCEPT !.aligns = Append(@, <<n, BamFile[f.at]>>),
                        !.reads = IF add = 1 THEN (int_node :> BamFile[f.at]) @@ @ ELSE @,
                        !.log = Append(@, e)]
        ELSE IF f.kind = "dropped"
        THEN [st EXCEPT !.log = Append(@, e)]
        ELSE [st EXCEPT !.log = Append(@, e), !.raised = TRUE]

\* get_reads, one pass of the loop over nodes_info on the state
\* [aligns, reads, log, raised]: a buffered node is answered from the buffer;
\* another one is read from the file. The log keeps, per node, whether it was
\* buffered and what the file reads came to.
GetReadsStep(st, int_node, add) ==
    IF st.raised THEN st
    ELSE IF int_node \in DOMAIN st.reads
    THEN [st EXCEPT !.aligns = Append(@, <<n2n[int_node], st.reads[int_node]>>),
                    !.log = Append(@, [node |-> int_node, cached |-> TRUE, kind |-> "buffer", at |-> 0, taken |-> 0])]
    ELSE CHOOSE r \in UNION {{FileStep(st, int_node, n, add, f) : f \in {SeekAndRead(n)}} : n \in {n2n[int_node]}} : TRUE

\* get_reads(infile, nodes_info, buffered_reads, n2n, add_to_buffer): the list
\* returned, the buffer as it leaves it, the log, and whether it raised.
get_reads(nodes, reads, add) ==
    LET Loop[i \in 0..Len(nodes)] ==
            IF i = 0 THEN [aligns |-> <<>>, reads |-> reads, log |-> <<>>, raised |-> FALSE]
            ELSE CHOOSE r \in {GetReadsStep(st, nodes[i], add) : st \in {Loop[i - 1]}} : TRUE
    IN  Loop[Len(nodes)]

\* The record each node was made from.
NodeRecord == <<1, 2, 4, 8, 8, 7, 1, 3, 5, 6, 8, 7, 9>>

\* One call of get_reads as the log keeps it: its arguments, the list it
\* returned, what happened node by node, and whether it raised.
FetchCall(nodes, add, r) ==
    [nodes |-> nodes, add |-> add, aligns |-> r.aligns, log |-> r.log, raised |-> r.raised]

\* get_reads is called on at most MaxNodes nodes.
MaxNodes == 2

\* get_reads on its own: the buffer is empty or holds the alignment of one
\* node; the nodes asked for are drawn one by one.
InitFetch ==
    /\ ClassifyIdle /\ ClipIdle /\ UnitIdle /\ AnnotIdle
    /\ data = <<>>
    /\ data_reads \in {<<>>} \cup {(i :> BamFile[NodeRecord[i]]) : i \in 1..Len(n2n)}
    /\ nodes_info = <<>>
    /\ add_to_buffer \in {0, 1}
    /\ fetched = <<>>
    /\ seen = {} /\ out_counts = <<>> /\ buffered_reads = 0 /\ events = <<>>
    /\ mpc = "nodes"
    /\ loop_i = 0

\* One more node is asked for.
AddNode ==
    /\ mpc = "nodes"
    /\ Len(nodes_info) < MaxNodes
    /\ \E i \in 1..Len(n2n) : nodes_info' = Append(nodes_info, i)
    /\ UNCHANGED <<data, data_reads, add_to_buffer, fetched, seen, out_counts, buffered_reads, events, mpc, loop_i>>
    /\ UNCHANGED not_multi_vars
    /\ UNCHANGED <<min_support, extended_tags>>

\* get_reads runs on the nodes asked for and returns, or StopIteration
\* leaves it.
GetReads ==
    /\ mpc = "nodes"
    /\ \E r \in {get_reads(nodes_info, data_reads, add_to_buffer)} :
          /\ data_reads' = r.reads
          /\ fetched' = <<FetchCall(nodes_info, add_to_buffer, r)>>
          /\ mpc' = IF r.raised THEN "StopIteration" ELSE "returned"
    /\ UNCHANGED <<data, nodes_info, add_to_buffer, seen, out_counts, buffered_reads, events, loop_i>>
    /\ UNCHANGED not_multi_vars
    /\ UNCHANGED <<min_support, extended_tags>>

NextFetch == AddNode \/ GetReads

SpecFetch == InitFetch /\ [][NextFetch]_vars

\* ---------------------------------------------------------------- properties of get_reads

\* The offsets of the records get_reads may read for node n: the first and up
\* to 5 more.
Window(n) == n[5]..(n[5] + RetrySteps)

\* What the log says of a node read from the file agrees with the file: the
\* record found is the first of the window that matches the node, a dropped
\* node has 6 records in its window and none matches.
EntryOk(e) ==
    \A n \in {n2n[e.node]} :
        /\ e.taken <= RetrySteps + 1
        /\ e.kind = "found" =>
              /\ e.at = n[5] + e.taken - 1
              /\ Matches(BamFile[e.at], n)
              /\ \A q \in n[5]..(e.at - 1) : ~Matches(BamFile[q], n)
        /\ e.kind = "dropped" =>
              /\ e.taken = RetrySteps + 1
              /\ \A q \in Window(n) : q <= Len(BamFile) /\ ~Matches(BamFile[q], n)

\* The entries of the log whose node is in the list returned.
KeptEntries(c) == SelectSeq(c.log, LAMBDA e : e.kind \in {"found", "buffer"})

\* A call of get_reads that returned went through every node, and returned
\* the nodes found or buffered, in order, each with a matching record.
ReturnedOk(c) ==
    \A kept \in {KeptEntries(c)} :
        /\ Len(c.log) = Len(c.nodes)
        /\ \A i \in 1..Len(c.nodes) : c.log[i].node = c.nodes[i]
        /\ Len(c.aligns) = Len(kept)
        /\ \A k \in 1..Len(kept) :
              /\ c.aligns[k][1] = n2n[kept[k].node]
              /\ kept[k].kind = "found" => c.aligns[k][2] = BamFile[kept[k].at]
              /\ Matches(c.aligns[k][2], c.aligns[k][1])

\* C16: for a node that is not buffered get_reads reads at most 6 consecutive
\* records from the node's offset, stops at the first one that matches the
\* node's identity and returns it for the node; when none of the 6 matches the
\* node is left out and the nodes after it are still processed; every pair
\* returned has a record that matches its node.
Thm_C16 ==
    \A k \in 1..Len(fetched) :
        /\ \A i \in 1..Len(fetched[k].log) : ~fetched[k].log[i].cached => EntryOk(fetched[k].log[i])
        /\ ~fetched[k].raised => ReturnedOk(fetched[k])

\* get_reads returned after dropping a node whose 6 records did not match and
\* then finding the record of a later node at the fifth retry.
Wit_C16 ==
    /\ mpc = "returned"
    /\ Len(fetched) = 1
    /\ \E i, j \in 1..Len(fetched[1].log) :
          /\ i < j
          /\ fetched[1].log[i].kind = "dropped"
          /\ fetched[1].log[j].kind = "found" /\ fetched[1].log[j].taken = RetrySteps + 1
    /\ Len(fetched[1].aligns) < Len(fetched[1].nodes)

\* ---------------------------------------------------------------- multi and call_from_block_model

\* if add_to_buffer and buffered_reads > 1e6: the count of reads above which
\* multi stops buffering, scaled to the size of the model.
BufferCap == 2

\* The flag left set whatever the count.
AddToBufferKept(add, count) == add

\* multi, lines 2048-2049: buffering is switched off once the count of reads
\* collected over the edges exceeds the cap.
NextAddToBuffer(add, count) ==
    IF add = 1 /\ count > BufferCap THEN 0 ELSE add

\* The alignment of a pair (node, alignment) with the cigar index and the
\* event position of the node.
WithNode(na) == [na[2] EXCEPT !.cigar_index = na[1][6], !.event_pos = na[1][7]]

\* The unit of work one_edge receives: the alignments of the u side and of
\* the v side, each the only alignment of its template.
EdgeUnit(rd_u, rd_v) ==
    [i \in 1..Len(rd_u) |-> Template(<<WithNode(rd_u[i])>>, BlankItem, "u")]
    \o [i \in 1..Len(rd_v) |-> Template(<<WithNode(rd_v[i])>>, BlankItem, "v")]

\* The unit of work single receives.
SingleUnit(rds) == EdgeUnit(rds, <<>>)

\* The node lists of the parts: two alignments spanning an insertion; two
\* spanning a deletion, one of them found at the fifth retry; a node whose
\* record is not found; a soft-clipped alignment, a node whose record is not
\* found and an alignment spanning an insertion; a node followed by one whose
\* reads run into the end of the file; one soft-clipped alignment; another
\* soft-clipped alignment.
NodeLists == {<<1, 3>>, <<2, 4>>, <<5>>, <<12, 11, 10>>, <<9, 7>>, <<8>>, <<13>>}

\* The node lists of three parts, no two alike.
PartTriples == {x \in NodeLists \X NodeLists \X NodeLists : x[1] # x[2] /\ x[1] # x[3] /\ x[2] # x[3]}

\* The components handed to call_from_block_model: no parts and the nodes of
\* one list; or three parts of different lists, with edges between some of
\* them that link all nodes of the two parts, and with links within every
\* part or within none.
Components ==
    {[parts |-> <<>>, s_between |-> <<>>, s_within |-> <<>>, nodes |-> l] : l \in NodeLists}
    \cup
    {[parts |-> t, s_between |-> es, s_within |-> ws, nodes |-> t[1] \o t[2] \o t[3]] :
        t \in PartTriples,
        es \in {<<>>, <<<<1, 2>>>>, <<<<1, 2>>, <<2, 3>>>>, <<<<1, 2>>, <<1, 3>>, <<2, 3>>>>},
        ws \in {<<>>, <<1, 2, 3>>}}

InitMulti ==
    /\ ClipIdle
    /\ AnnotIdle
    /\ v_item = BlankItem /\ pc = "new" /\ informative = <<>> /\ precise_a = <<>> /\ precise_b = <<>>
    /\ insert_size = 1 /\ insert_stdev = 1 /\ call = NoCall /\ runs = 0
    /\ unit = <<>> /\ upath = "" /\ info = <<>> /\ attrs = <<>> /\ final = <<>> /\ result = <<>>
    /\ min_support \in 1..MaxSupport
    /\ extended_tags \in {0, 1}
    /\ data \in Components
    /\ data_reads = <<>>
    /\ nodes_info = <<>>
    /\ add_to_buffer = 0
    /\ fetched = <<>>
    /\ seen = {} /\ out_counts = <<>> /\ buffered_reads = 0 /\ events = <<>>
    /\ mpc = "start"
    /\ loop_i = 0

\* What no action of call_from_block_model changes.
multi_params == <<not_multi_vars, min_support, extended_tags, data, nodes_info>>

\* call_from_block_model with n_parts >= 1 enters multi, up to the first loop.
EnterMulti ==
    /\ mpc = "start"
    /\ Len(data.parts) >= 1
    /\ seen' = 1..Len(data.parts)
    /\ out_counts' = [k \in 1..Len(data.parts) |-> 0]
    /\ buffered_reads' = 0
    /\ add_to_buffer' = 1
    /\ events' = <<>>
    /\ mpc' = "edges"
    /\ loop_i' = 1
    /\ UNCHANGED <<data_reads, fetched>>
    /\ UNCHANGED multi_params

\* call_from_block_model with n_parts = 0: single on all nodes of the
\* component; an empty result is not appended.
CallNoParts ==
    /\ mpc = "start"
    /\ Len(data.parts) = 0
    /\ \E r \in {get_reads(data.nodes, data_reads, 0)} :
          /\ data_reads' = r.reads
          /\ fetched' = <<FetchCall(data.nodes, 0, r)>>
          /\ IF r.raised
             THEN mpc' = "StopIteration" /\ events' = events
             ELSE IF Len(r.aligns) < min_support
             THEN mpc' = "returned" /\ events' = <<>>
             ELSE \E rds \in {SingleUnit(r.aligns)} :
                  \E e \in {single(rds, insert_size, insert_stdev, min_support, extended_tags).result} :
                     IF e.kind = "KeyError" THEN mpc' = "KeyError" /\ events' = events
                     ELSE /\ mpc' = "returned"
                          /\ events' = IF e.kind = "call" THEN <<e>> ELSE <<>>
    /\ UNCHANGED <<add_to_buffer, seen, out_counts, buffered_reads, loop_i>>
    /\ UNCHANGED multi_params

\* Both endpoints leave seen, whatever the fetches returned.
SeenWithoutEndpoints(s, u, v, n_u, n_v) == s \ {u, v}

\* multi, lines 2053-2059: seen after an edge (u, v) whose fetches returned
\* n_u and n_v reads.
NextSeen(s, u, v, n_u, n_v) == IF n_u = 0 \/ n_v = 0 THEN s ELSE s \ {u, v}

\* multi, one pass of the loop over s_between (lines 2042-2062).
MultiEdge ==
    /\ mpc = "edges"
    /\ loop_i <= Len(data.s_between)
    /\ \E u \in {data.s_between[loop_i][1]}, v \in {data.s_between[loop_i][2]} :
       \E ru \in {get_reads(data.parts[u], data_reads, add_to_buffer)} :
          IF ru.raised
          THEN /\ mpc' = "StopIteration"
               /\ data_reads' = ru.reads
               /\ fetched' = <<FetchCall(data.parts[u], add_to_buffer, ru)>>
               /\ UNCHANGED <<add_to_buffer, seen, out_counts, buffered_reads, events, loop_i>>
          ELSE
       \E rv \in {get_reads(data.parts[v], ru.reads, add_to_buffer)} :
          /\ data_reads' = rv.reads
          /\ fetched' = <<FetchCall(data.parts[u], add_to_buffer, ru), FetchCall(data.parts[v], add_to_buffer, rv)>>
          /\ IF rv.raised
             THEN /\ mpc' = "StopIteration"
                  /\ UNCHANGED <<add_to_buffer, seen, out_counts, buffered_reads, events, loop_i>>
             ELSE /\ buffered_reads' = buffered_reads + Len(ru.aligns) + Len(rv.aligns)
                  /\ add_to_buffer' = NextAddToBuffer(add_to_buffer, buffered_reads')
                  /\ out_counts' = [k \in DOMAIN out_counts |->
                                       out_counts[k] + (IF k = u THEN Len(ru.aligns) ELSE 0)
                                                     + (IF k = v THEN Len(rv.aligns) ELSE 0)]
                  /\ seen' = NextSeen(seen, u, v, Len(ru.aligns), Len(rv.aligns))
                  /\ IF Len(ru.aligns) = 0 \/ Len(rv.aligns) = 0
                     THEN /\ loop_i' = loop_i + 1
                          /\ UNCHANGED <<events, mpc>>
                     ELSE /\ \E rd \in {EdgeUnit(ru.aligns, rv.aligns)} :
                             \E e \in {one_edge(rd, insert_size, insert_stdev, min_support, extended_tags).result} :
                                IF e.kind = "KeyError"
                                THEN mpc' = "KeyError" /\ UNCHANGED <<events, loop_i>>
                                ELSE events' = Append(events, e) /\ loop_i' = loop_i + 1 /\ mpc' = mpc
    /\ UNCHANGED multi_params

\* multi, the loop over s_between is over.
EdgesDone ==
    /\ mpc = "edges"
    /\ loop_i > Len(data.s_between)
    /\ mpc' = "parts"
    /\ loop_i' = 1
    /\ fetched' = <<>>
    /\ UNCHANGED <<data_reads, add_to_buffer, seen, out_counts, buffered_reads, events>>
    /\ UNCHANGED multi_params

\* multi, lines 2071-2075 and 2085-2089: the reads of the nodes d are
\* collected without buffering and handed to single when there are
\* min_support of them; what single returns is appended.
CallSingle(d, next_pc, next_i) ==
    \E r \in {get_reads(d, data_reads, 0)} :
        /\ data_reads' = r.reads
        /\ fetched' = <<FetchCall(d, 0, r)>>
        /\ IF r.raised
           THEN mpc' = "StopIteration" /\ UNCHANGED <<events, loop_i>>
           ELSE IF Len(r.aligns) < min_support
           THEN mpc' = next_pc /\ loop_i' = next_i /\ UNCHANGED events
           ELSE \E rds \in {SingleUnit(r.aligns)} :
                \E e \in {single(rds, insert_size, insert_stdev, min_support, extended_tags).result} :
                   IF e.kind = "KeyError"
                   THEN mpc' = "KeyError" /\ UNCHANGED <<events, loop_i>>
                   ELSE events' = Append(events, e) /\ mpc' = next_pc /\ loop_i' = next_i

\* multi, one pass of the loop over the parts left in seen (lines 2065-2075),
\* by part key.
MultiPart ==
    /\ mpc = "parts"
    /\ loop_i <= Len(data.parts)
    /\ IF loop_i \in seen /\ Len(data.parts[loop_i]) >= min_support
       THEN CallSingle(data.parts[loop_i], mpc, loop_i + 1)
       ELSE /\ loop_i' = loop_i + 1
            /\ fetched' = <<>>
            /\ UNCHANGED <<data_reads, events, mpc>>
    /\ UNCHANGED <<add_to_buffer, seen, out_counts, buffered_reads>>
    /\ UNCHANGED multi_params

\* multi, the loop over the parts is over.
PartsDone ==
    /\ mpc = "parts"
    /\ loop_i > Len(data.parts)
    /\ mpc' = "within"
    /\ loop_i' = 1
    /\ fetched' = <<>>
    /\ UNCHANGED <<data_reads, add_to_buffer, seen, out_counts, buffered_reads, events>>
    /\ UNCHANGED multi_params

\* multi, one pass of the loop over s_within (lines 2078-2089).
MultiWithin ==
    /\ mpc = "within"
    /\ loop_i <= Len(data.s_within)
    /\ LET k == data.s_within[loop_i]
           o_count == out_counts[k]
           i_counts == Len(data.parts[k])
       IN  IF o_count > 0 /\ i_counts > 2 * min_support /\ i_counts > o_count
           THEN CallSingle(data.parts[k], mpc, loop_i + 1)
           ELSE /\ loop_i' = loop_i + 1
                /\ fetched' = <<>>
                /\ UNCHANGED <<data_reads, events, mpc>>
    /\ UNCHANGED <<add_to_buffer, seen, out_counts, buffered_reads>>
    /\ UNCHANGED multi_params

\* multi returns events and call_from_block_model returns them.
MultiReturn ==
    /\ mpc = "within"
    /\ loop_i > Len(data.s_within)
    /\ mpc' = "returned"
    /\ fetched' = <<>>
    /\ UNCHANGED <<data_reads, add_to_buffer, seen, out_counts, buffered_reads, events, loop_i>>
    /\ UNCHANGED multi_params

NextMulti ==
    \/ EnterMulti
    \/ CallNoParts
    \/ MultiEdge
    \/ EdgesDone
    \/ MultiPart
    \/ PartsDone
    \/ MultiWithin
    \/ MultiReturn

SpecMulti == InitMulti /\ [][NextMulti]_vars

\* ---------------------------------------------------------------- properties of multi and call_from_block_model

\* C14 (as claimed): the list call_from_block_model and multi build holds
\* only call records: a unit for which one_edge or single returns the empty
\* result adds no element to it.
Cex_C14 ==
    \A i \in 1..Len(events) : events[i].kind = "call"

\* multi is running and the count of reads collected over the edges has
\* exceeded the cap.
OverCap == mpc \in {"edges", "parts", "within"} /\ buffered_reads > BufferCap

\* Node n has a matching record among the records get_reads may read for it.
InWindow(n) == \E q \in Window(n) : q <= Len(BamFile) /\ Matches(BamFile[q], n)

\* A call of get_reads on the buffer reads that did not buffer: it answered
\* every buffered node from the buffer without reading the file, and read the
\* file for every other node, returning it with its record when one of the
\* records read matched.
UnbufferedCallOk(c, reads) ==
    /\ c.add = 0
    /\ \A i \in 1..Len(c.log) :
          \A e \in {c.log[i]} : \A n \in {n2n[c.log[i].node]} :
              IF e.node \in DOMAIN reads
              THEN /\ e.cached /\ e.taken = 0
                   /\ \E k \in 1..Len(c.aligns) : c.aligns[k] = <<n, reads[e.node]>>
              ELSE /\ ~e.cached /\ e.taken >= 1
                   /\ InWindow(n) =>
                         /\ e.kind = "found"
                         /\ \E k \in 1..Len(c.aligns) : c.aligns[k] = <<n, BamFile[e.at]>>

\* C15: once the count of reads collected by multi has exceeded the cap,
\* buffering stays off for the rest of the call: no later step adds an entry
\* to the buffer, every buffered node is still answered from the buffer
\* without a file read, and every other node is still read from the file,
\* verified and returned.
Thm_C15 ==
    [][OverCap =>
          /\ add_to_buffer' = 0
          /\ data_reads' = data_reads
          /\ \A k \in 1..Len(fetched') : UnbufferedCallOk(fetched'[k], data_reads)]_vars

\* After the cap was exceeded on an earlier edge, an edge was processed for
\* which one node was answered from the buffer and another was read from the
\* file, returned, and not buffered.
Wit_C15 ==
    /\ mpc = "edges" /\ buffered_reads > BufferCap /\ add_to_buffer = 0
    /\ \E k1, k2 \in 1..Len(fetched) :
          /\ fetched[k1].add = 0 /\ fetched[k2].add = 0
          /\ \E i \in 1..Len(fetched[k1].log) : fetched[k1].log[i].cached
          /\ \E j \in 1..Len(fetched[k2].log) :
                /\ fetched[k2].log[j].kind = "found"
                /\ fetched[k2].log[j].node \notin DOMAIN data_reads

\* C18 (as claimed): get_reads raises for no node, so that no exception from
\* a read of the alignment file leaves call_from_block_model.
Cex_C18 ==
    mpc # "StopIteration"

\* ---------------------------------------------------------------- make_call and break_ops, per side

\* The (svtype, join_type) pair the majority vote of call_from_reads picks.
WinningPair == MostCommon([i \in 1..Len(informative) |-> <<informative[i].svtype, informative[i].join_type>>])

\* The hypotheses of the winning (svtype, join_type), in list order.
RECURSIVE OfPair(_, _)
OfPair(inf, key) ==
    IF inf = <<>> THEN <<>>
    ELSE (IF <<Head(inf).svtype, Head(inf).join_type>> = key THEN <<Head(inf)>> ELSE <<>>)
             \o OfPair(Tail(inf), key)

\* posA, posB, cipos95 and the precise flags of a call record.
Coordinates(c) == <<c.posA, c.posB, c.cipos95A, c.cipos95B, c.preciseA, c.preciseB>>

\* C21 (as claimed): the consensus coordinates are computed only from the
\* hypotheses of the winning (svtype, join_type): the call made from the whole
\* list has the posA, posB, cipos95 and precise flags of the call made from
\* the winning hypotheses alone.
Cex_C21 ==
    Made =>
        \A key \in {WinningPair} :
            \A w \in {OfPair(informative, key)} :
                Coordinates(call) =
                    Coordinates(make_call(w, PreciseAOf(w), PreciseBOf(w),
                                          key[1], key[2], insert_size, insert_stdev))

\* make_call has run once on the lists of this state; a rerun changes neither
\* the lists nor the call.
FirstRun == Made /\ runs = 1

\* [i.breakA for i in informative] and [i.breakB for i in informative].
PositionsA == [i \in 1..Len(informative) |-> informative[i].breakA]
PositionsB == [i \in 1..Len(informative) |-> informative[i].breakB]

\* limit = insert_size + insert_stdev.
Limit == insert_size + insert_stdev

\* The sweep results make_call assigned for the call of this state, before
\* svlen and the insertion refinement.
CallSweeps ==
    make_call_sweeps(PositionsA, PositionsB, precise_a, precise_b, call.svtype, call.join_type, Limit)

\* Side A's (B's) break and cipos95 in c are those of break_ops over side A's
\* (B's) positions with the given limit.
SweptA(c, limit) ==
    \A r \in {break_ops(PositionsA, precise_a, limit, Median2(PositionsA))} :
        c.posA = r[1] /\ c.cipos95A = r[2]

SweptB(c, limit) ==
    \A r \in {break_ops(PositionsB, precise_b, limit, Median2(PositionsB))} :
        c.posB = r[1] /\ c.cipos95B = r[2]

\* The sweep directions of the join types, for a type other than DEL and DUP.
JoinDirections(c) ==
    IF call.join_type = "3to3" THEN SweptA(c, Limit) /\ SweptB(c, Limit)
    ELSE IF call.join_type = "5to5" THEN SweptA(c, -Limit) /\ SweptB(c, -Limit)
    ELSE IF call.join_type = "3to5" THEN SweptA(c, Limit) /\ SweptB(c, -Limit)
    ELSE SweptA(c, -Limit) /\ SweptB(c, Limit)

\* C22 (as claimed): make_call sweeps A with +limit and B with -limit for DEL
\* and for join 3to5, A with -limit and B with +limit for DUP and for join
\* 5to3, both with +limit for 3to3 and both with -limit for 5to5, whatever
\* the order of the medians of the A and B positions.
Cex_C22 ==
    Made =>
        \A c \in {CallSweeps} :
            IF call.svtype = "DEL" THEN SweptA(c, Limit) /\ SweptB(c, -Limit)
            ELSE IF call.svtype = "DUP" THEN SweptA(c, -Limit) /\ SweptB(c, Limit)
            ELSE JoinDirections(c)

\* C22 (amended): for DEL the side with the smaller median is swept with
\* +limit and the other with -limit (A with +limit when median_A < median_B,
\* B with +limit otherwise); for DUP the side with the smaller median is swept
\* with -limit and the other with +limit; for every other type the directions
\* follow the join type alone, whatever the order of the medians.
Thm_C22 ==
    FirstRun =>
        \A c \in {CallSweeps} :
            IF call.svtype = "DEL"
            THEN IF Median2(PositionsA) < Median2(PositionsB)
                 THEN SweptA(c, Limit) /\ SweptB(c, -Limit)
                 ELSE SweptA(c, -Limit) /\ SweptB(c, Limit)
            ELSE IF call.svtype = "DUP"
            THEN IF Median2(PositionsA) < Median2(PositionsB)
                 THEN SweptA(c, -Limit) /\ SweptB(c, Limit)
                 ELSE SweptA(c, Limit) /\ SweptB(c, -Limit)
            ELSE JoinDirections(c)

\* A DEL call whose A positions lie right of its B positions and whose side A
\* result differs from what a +limit sweep of side A gives.
Wit_C22 ==
    /\ FirstRun
    /\ call.svtype = "DEL"
    /\ Len(informative) >= 2
    /\ Median2(PositionsA) > Median2(PositionsB)
    /\ ~SweptA(CallSweeps, Limit)

\* posA, cipos95A and preciseA of the call are the three results of one sweep
\* over side A's positions.
FlagFromSideA ==
    \E limit \in {Limit, -Limit} :
        \E r \in {break_ops(PositionsA, precise_a, limit, Median2(PositionsA))} :
            call.posA = r[1] /\ call.cipos95A = r[2] /\ call.preciseA = r[3]

\* posB, cipos95B and preciseB of the call are the three results of one sweep
\* over side B's positions.
FlagFromSideB ==
    \E limit \in {Limit, -Limit} :
        \E r \in {break_ops(PositionsB, precise_b, limit, Median2(PositionsB))} :
            call.posB = r[1] /\ call.cipos95B = r[2] /\ call.preciseB = r[3]

\* C23 (as claimed): in the record make_call returns, preciseA is the flag
\* side A's sweep produced and preciseB the flag side B's sweep produced, for
\* every svtype and both orders of the medians; the insertion refinement,
\* which moves positions, is left aside.
Cex_C23 ==
    (Made /\ ~Refined) => (FlagFromSideA /\ FlagFromSideB)

\* A same-chromosome INS call made from hypotheses without a recorded query_gap.
UnmappedInsertion ==
    /\ Made
    /\ call.svtype = "INS"
    /\ call.chrA = call.chrB
    /\ QGaps(informative) = <<>>

\* C24: for a same-chromosome INS call without recorded query_gap: with both
\* sides imprecise posA is the midpoint of the two sweep results, posB is
\* posA + 1 and svlen is min(|B - A|, max(cipos95A, cipos95B)); with exactly
\* one side precise that side stays, the other becomes its neighbour and
\* svlen is half the imprecise side's cipos95; with both precise nothing moves
\* and svlen is 0; so |posB - posA| = 1 whenever a side is imprecise.
Thm_C24 ==
    (FirstRun /\ UnmappedInsertion) =>
        \A c \in {CallSweeps} :
            /\ call.preciseA = c.preciseA /\ call.preciseB = c.preciseB
            /\ call.cipos95A = c.cipos95A /\ call.cipos95B = c.cipos95B
            /\ (c.preciseA = 0 /\ c.preciseB = 0) =>
                  /\ 2 * call.posA <= c.posA + c.posB
                  /\ c.posA + c.posB <= 2 * call.posA + 1
                  /\ call.posB = call.posA + 1
                  /\ call.svlen = Min(Abs(c.posB - c.posA), Max(c.cipos95A, c.cipos95B))
            /\ (c.preciseA = 0 /\ c.preciseB # 0) =>
                  /\ call.posB = c.posB
                  /\ call.posA \in {c.posB - 1, c.posB + 1}
                  /\ call.svlen = c.cipos95A \div 2
            /\ (c.preciseA # 0 /\ c.preciseB = 0) =>
                  /\ call.posA = c.posA
                  /\ call.posB \in {c.posA - 1, c.posA + 1}
                  /\ call.svlen = c.cipos95B \div 2
            /\ (c.preciseA # 0 /\ c.preciseB # 0) =>
                  /\ call.posA = c.posA /\ call.posB = c.posB
                  /\ call.svlen = 0
            /\ (c.preciseA = 0 \/ c.preciseB = 0) => Abs(call.posB - call.posA) = 1

\* An insertion without query_gap, from at least two hypotheses, precise on
\* side A only, whose side B was moved next to side A.
Wit_C24 ==
    /\ FirstRun /\ UnmappedInsertion
    /\ Len(informative) >= 2
    /\ call.preciseA # 0 /\ call.preciseB = 0
    /\ call.posB # CallSweeps.posB

\* The running sum of the deltas after each event of a sweep.
RunningSums(ops) ==
    LET Sum[k \in 0..Len(ops)] == IF k = 0 THEN 0 ELSE Sum[k - 1] + ops[k][2]
    IN  [k \in 1..Len(ops) |-> Sum[k]]

\* Event k is the earliest event of the sweep at which the running sum has its
\* maximum over the whole sweep.
EarliestMaximum(sums, k) ==
    /\ \A j \in 1..Len(sums) : sums[j] <= sums[k]
    /\ \A j \in 1..(k - 1) : sums[j] < sums[k]

\* The events are in sweep order: ascending positions for limit >= 0,
\* descending for limit < 0.
InSweepOrder(ops, limit) ==
    \A k \in 1..(Len(ops) - 1) :
        IF limit < 0 THEN ops[k][1] >= ops[k + 1][1] ELSE ops[k][1] <= ops[k + 1][1]

\* What C25 says of break_ops(positions, precise, limit, median).
BreakPointOk(positions, precise, limit) ==
    \A ops \in {SortOps(BreakOpsEvents(positions, precise, limit), limit < 0)} :
        \A sums \in {RunningSums(ops)} :
            \A r \in {break_ops(positions, precise, limit, Median2(positions))} :
                /\ InSweepOrder(ops, limit)
                /\ \E k \in 1..Len(ops) : ops[k][1] = r[1] /\ EarliestMaximum(sums, k)
                /\ InSeq(r[1], positions) \/ InSeq(r[1], precise)
                /\ r[3] # 0 => InSeq(r[1], precise)

\* C25: break_ops returns the position of the earliest event, in sweep order,
\* at which the running sum of deltas has its maximum over the whole sweep;
\* that position is one of the input observations, and when the result is
\* marked precise it is one of the precise observations. Stated for the
\* sweeps of both sides in both directions and with limit 0.
Thm_C25 ==
    FirstRun =>
        \A limit \in {Limit, -Limit, 0} :
            /\ BreakPointOk(PositionsA, precise_a, limit)
            /\ BreakPointOk(PositionsB, precise_b, limit)

\* A call whose forward sweep of side A reaches its maximal running sum at
\* two events of different positions, with a precise result.
Wit_C25 ==
    /\ FirstRun
    /\ Len(precise_a) >= 1
    /\ \E ops \in {SortOps(BreakOpsEvents(PositionsA, precise_a, Limit), FALSE)} :
          \E sums \in {RunningSums(ops)} :
              \E k \in 1..Len(ops), j \in 1..Len(ops) :
                  /\ EarliestMaximum(sums, k)
                  /\ j > k /\ sums[j] = sums[k] /\ ops[j][1] # ops[k][1]
                  /\ ops[k][3] = 1

\* ---------------------------------------------------------------- spanning support and the two modes

\* C26 (as claimed): every alignment of the spanning list adds 2 to pe or 2 to
\* supp, so an aggregate count_attributes returns has
\* pe + supp >= 2 * spanning.
Cex_C26 ==
    (upath # "" /\ attrs # <<>> /\ attrs.kind = "attrs") =>
        attrs.pe + attrs.supp >= 2 * attrs.spanning

\* What count_attributes returns in basic mode for the unit of this state, on
\* the path taken.
BasicAttrs ==
    IF upath = "single" THEN single(unit, insert_size, insert_stdev, min_support, 0).attrs
    ELSE one_edge(unit, insert_size, insert_stdev, min_support, 0).attrs

\* C27 (as claimed): for the same reads, spanning list, min_support and
\* svtype, extended mode returns an aggregate with the pe, supp, sc, NP, plus,
\* minus and spanning of basic mode whenever total support reaches
\* min_support.
Cex_C27 ==
    (upath # "" /\ extended_tags = 1 /\ attrs # <<>>) =>
        \A basic \in {BasicAttrs} :
            (basic.kind = "attrs" /\ basic.pe + basic.supp >= min_support) =>
                /\ attrs.kind = "attrs"
                /\ <<attrs.pe, attrs.supp, attrs.sc, attrs.NP, attrs.plus, attrs.minus, attrs.spanning>>
                       = <<basic.pe, basic.supp, basic.sc, basic.NP, basic.plus, basic.minus, basic.spanning>>

\* ---------------------------------------------------------------- multi, unlinked partitions

\* A pass of the loop over s_between in which both fetches returned.
EdgeStep ==
    /\ mpc = "edges" /\ loop_i <= Len(data.s_between)
    /\ Len(fetched') = 2
    /\ ~fetched'[1].raised /\ ~fetched'[2].raised

\* The fetch for one of the endpoints returned zero reads.
EdgeWithoutReads ==
    EdgeStep /\ (Len(fetched'[1].aligns) = 0 \/ Len(fetched'[2].aligns) = 0)

\* The step invoked one_edge or single: its result was appended, or its
\* KeyError left multi.
Invoked == events' # events \/ mpc' = "KeyError"

\* A pass of the loop over the unlinked partitions, at part key loop_i.
PartStep == mpc = "parts" /\ loop_i <= Len(data.parts)

\* C28: an edge for which a fetch returns zero reads does not invoke one_edge
\* and removes neither endpoint from seen; seen shrinks only by the endpoints
\* of an edge with reads on both sides; the singleton loop fetches and calls
\* single for exactly the parts still in seen that have min_support member
\* nodes and min_support fetched reads, and does nothing for a part that was
\* removed.
Thm_C28 ==
    [][/\ EdgeWithoutReads => (seen' = seen /\ ~Invoked)
       /\ (EdgeStep /\ ~EdgeWithoutReads) =>
             /\ seen' = seen \ {data.s_between[loop_i][1], data.s_between[loop_i][2]}
             /\ Invoked
       /\ (mpc # "start" /\ ~(EdgeStep /\ ~EdgeWithoutReads)) => seen' = seen
       /\ PartStep =>
             IF loop_i \in seen /\ Len(data.parts[loop_i]) >= min_support
             THEN /\ Len(fetched') = 1
                  /\ fetched'[1].nodes = data.parts[loop_i]
                  /\ ~fetched'[1].raised => (Invoked <=> Len(fetched'[1].aligns) >= min_support)
             ELSE fetched' = <<>> /\ ~Invoked]_vars

\* The only edge (1, 2) was skipped because the fetch for part 2 returned no
\* read, and part 1, which had reads, has just been handed to single by the
\* loop over the unlinked partitions.
Wit_C28 ==
    /\ mpc = "parts" /\ loop_i = 2
    /\ data.s_between = <<<<1, 2>>>>
    /\ 1 \in seen /\ 2 \in seen
    /\ out_counts[1] > 0 /\ out_counts[2] = 0
    /\ Len(fetched) = 1 /\ fetched[1].nodes = data.parts[1]
    /\ Len(fetched[1].aligns) >= min_support
    /\ Len(events) = 1

\* ---------------------------------------------------------------- get_raw_coverage_information

\* The record is annotated at most MaxAnnotations times.
MaxAnnotations == 2

\* io_funcs.intersecterpy(regions, chrom, start, end): some region of the
\* chromosome overlaps [start, end).
intersecterpy(regs, chrom, start, end) ==
    \E i \in 1..Len(regs) : regs[i][1] = chrom /\ regs[i][2] < end /\ start < regs[i][3]

\* list(regions[chrom].find_overlap(pos, pos + 1))[0]: the first region of the
\* chromosome that overlaps the position.
FindOverlap(regs, chrom, pos) ==
    regs[CHOOSE i \in 1..Len(regs) :
            /\ regs[i][1] = chrom /\ regs[i][2] < pos + 1 /\ pos < regs[i][3]
            /\ \A j \in 1..(i - 1) : ~(regs[j][1] = chrom /\ regs[j][2] < pos + 1 /\ pos < regs[j][3])]

\* rA[0] == rB[0] and rA[1] == rB[1]: both positions lie in the same region.
SameRegion(regs, r) ==
    \E rA \in {FindOverlap(regs, r.chrA, r.posA)}, rB \in {FindOverlap(regs, r.chrB, r.posB)} :
        rA[2] = rB[2] /\ rA[3] = rB[3]

\* get_raw_coverage_information, lines 2125-2154: kind and switch, from
\* ar and br. The switch = True of line 2128 (both sides outside the regions,
\* same chromosome, posA > posB) is overwritten by the switch = False of
\* line 2134, which every call executes.
KindAndSwitch(r, regs, ar, br) ==
    LET switch_2128 == ~ar /\ ~br /\ r.chrA = r.chrB /\ r.posA > r.posB
        switch_2134 == FALSE
    IN  IF (br /\ ~ar) \/ (~br /\ ar)
        THEN [kind |-> "hemi-regional", switch |-> (~br /\ ar)]
        ELSE IF ar /\ br
        THEN IF r.chrA = r.chrB
             THEN IF SameRegion(regs, r)
                  THEN [kind |-> "intra_regional", switch |-> (r.posA > r.posB)]
                  ELSE [kind |-> "inter-regional",
                        switch |-> (r.chrA # (IF r.chrA <= r.chrB THEN r.chrA ELSE r.chrB))]
             ELSE [kind |-> "inter-regional", switch |-> switch_2134]
        ELSE [kind |-> "extra-regional", switch |-> switch_2134]

\* get_raw_coverage_information, lines 2156-2165: the fields exchanged when
\* switch is set.
SwitchSides(r) ==
    [r EXCEPT !.chrA = r.chrB, !.posA = r.posB, !.cipos95A = r.cipos95B,
              !.chrB = r.chrA, !.posB = r.posA, !.cipos95B = r.cipos95A,
              !.contig2 = r.contig, !.contig = r.contig2]

\* coverage.calculate_coverage around a position of the chromosome, 0 for a
\* chromosome without depth: depth is the list of the depths of chromosomes
\* 0, 1, ... that have one.
ChromCoverage(depth, chrom) == IF chrom + 1 <= Len(depth) THEN depth[chrom + 1] ELSE 0

\* get_raw_coverage_information, lines 2167-2191: the depth at side A for a
\* hemi-regional call, the larger of the two sides' depths otherwise.
Reads10kb(r, kind, depth) ==
    IF kind = "hemi-regional" THEN ChromCoverage(depth, r.chrA)
    ELSE IF ChromCoverage(depth, r.chrA) > ChromCoverage(depth, r.chrB)
    THEN ChromCoverage(depth, r.chrA)
    ELSE ChromCoverage(depth, r.chrB)

\* get_raw_coverage_information, lines 2193-2197: kind, raw_reads_10kb, the
\* svlen of an inter-chromosomal call and su.
AnnotateFields(r, kind, depth) ==
    [r EXCEPT !.kind = kind,
              !.raw_reads_10kb = Reads10kb(r, kind, depth),
              !.svlen = IF r.chrA # r.chrB THEN 1000000 ELSE @,
              !.su = r.pe + r.supp + r.spanning]

\* get_raw_coverage_information(r, regions, regions_depth, infile): the record
\* returned and the value of the local switch.
get_raw_coverage_information(r, regs, depth) ==
    CHOOSE out \in {[r |-> AnnotateFields(IF ks.switch THEN SwitchSides(r) ELSE r, ks.kind, depth),
                     switch |-> ks.switch]
                       : ks \in {KindAndSwitch(r, regs,
                                               intersecterpy(regs, r.chrA, r.posA, r.posA + 1),
                                               intersecterpy(regs, r.chrB, r.posB, r.posB + 1))}} : TRUE

\* The chromosomes and positions of the calls annotated; with AllRegions
\* position 1 of chromosome 0 lies in no region, 2 and 3 in one region and 7
\* in another, and on chromosome 1 only 7 lies outside the region.
AnnotChroms == {0, 1}
AnnotPositions == {1, 2, 3, 7}
AllRegions == <<<<0, 2, 4>>, <<0, 6, 8>>, <<1, 0, 4>>>>

\* The (precise, cipos95) pairs of a side.
SideKinds == {<<1, 0>>, <<0, 3>>}

\* A finished call as the annotation receives it; kind, raw_reads_10kb and su
\* are the keys the annotation adds, empty before.
CallRecord(chrA, posA, sA, chrB, posB, sB) ==
    [svtype |-> IF chrA = chrB THEN "DEL" ELSE "TRA", join_type |-> "3to5",
     chrA |-> chrA, posA |-> posA, cipos95A |-> sA[2], preciseA |-> sA[1], contig |-> "contigA",
     chrB |-> chrB, posB |-> posB, cipos95B |-> sB[2], preciseB |-> sB[1], contig2 |-> "contigB",
     svlen |-> IF chrA = chrB THEN Abs(posB - posA) ELSE 0,
     pe |-> 2, supp |-> 1, spanning |-> 0,
     kind |-> "", raw_reads_10kb |-> 0, su |-> 0]

InitAnnotate ==
    /\ ClassifyIdle /\ ClipIdle /\ UnitIdle /\ MultiIdle
    /\ \E chrA \in AnnotChroms, chrB \in AnnotChroms, posA \in AnnotPositions, posB \in AnnotPositions :
          \E sA \in SideKinds, sB \in SideKinds :
             rec_in = CallRecord(chrA, posA, sA, chrB, posB, sB)
    /\ rec = rec_in
    /\ regions \in {<<>>, AllRegions}
    /\ regions_depth \in {<<>>, <<2>>, <<2, 5>>}
    /\ switch = FALSE
    /\ annotations = 0

\* get_raw_coverage_information is applied to the record.
Annotate ==
    /\ annotations < MaxAnnotations
    /\ \E out \in {get_raw_coverage_information(rec, regions, regions_depth)} :
          /\ rec' = out.r
          /\ switch' = out.switch
    /\ annotations' = annotations + 1
    /\ UNCHANGED <<rec_in, regions, regions_depth>>
    /\ UNCHANGED not_annot_vars

NextAnnotate == Annotate

SpecAnnotate == InitAnnotate /\ [][NextAnnotate]_vars

\* ---------------------------------------------------------------- properties of the annotation

\* The first annotation exchanged the two sides.
Switched == annotations = 1 /\ switch

\* C29 (as claimed): when the annotation swaps the sides, chr, pos, cipos95,
\* precise and contig of side A and side B are all exchanged, and svtype,
\* join_type and the evidence counts are unchanged.
Cex_C29 ==
    Switched =>
        /\ <<rec.chrA, rec.posA, rec.cipos95A, rec.preciseA, rec.contig>>
              = <<rec_in.chrB, rec_in.posB, rec_in.cipos95B, rec_in.preciseB, rec_in.contig2>>
        /\ <<rec.chrB, rec.posB, rec.cipos95B, rec.preciseB, rec.contig2>>
              = <<rec_in.chrA, rec_in.posA, rec_in.cipos95A, rec_in.preciseA, rec_in.contig>>
        /\ <<rec.svtype, rec.join_type, rec.pe, rec.supp, rec.spanning>>
              = <<rec_in.svtype, rec_in.join_type, rec_in.pe, rec_in.supp, rec_in.spanning>>

\* Side A (side B) of the record lies in a region.
InRegionA == intersecterpy(regions, rec.chrA, rec.posA, rec.posA + 1)
InRegionB == intersecterpy(regions, rec.chrB, rec.posB, rec.posB + 1)

\* C30 (as claimed): after the annotation a same-chromosome extra-regional or
\* intra_regional call has posA <= posB, a hemi-regional call has side A
\* outside the regions and side B inside, and a second annotation performs
\* no swap.
Cex_C30 ==
    annotations >= 1 =>
        /\ (rec.chrA = rec.chrB /\ rec.kind \in {"extra-regional", "intra_regional"}) =>
              rec.posA <= rec.posB
        /\ rec.kind = "hemi-regional" => (~InRegionA /\ InRegionB)
        /\ annotations = 2 => ~switch
====
